---------------------------- MODULE Spec2Model ----------------------------
(***************************************************************************)
(* The vertex-label visualisation of the landing pages: vertex generation  *)
(* (getC60Vertices, TorusGeometry), vertex de-duplication, label           *)
(* assignment, the visibility model and the rotation driver.               *)
(*                                                                         *)
(* Numbers.  The code computes in IEEE doubles.  The model computes in     *)
(* fixed point: an integer n stands for the real n / Scale.  Products and  *)
(* quotients are rounded to the nearest unit, so every quantity carries an *)
(* error of a few units of 1/Scale; the formulas below that compare        *)
(* magnitudes say which tolerance they allow.                              *)
(***************************************************************************)
EXTENDS Integers, Sequences, FiniteSets, TLC

(***************************************************************************)
(* Fixed-point arithmetic (TLC integers are 32 bits wide, so products are  *)
(* formed limb by limb in base 1000).                                      *)
(***************************************************************************)
Scale == 10 ^ 6
Limb == 10 ^ 3

Abs(n) == IF n < 0 THEN -n ELSE n
Sgn(n) == IF n < 0 THEN -1 ELSE 1

\* round(n / d) for n >= 0, d > 0, halves rounded up
RoundDiv(n, d) == (n \div d) + (IF 2 * (n % d) >= d THEN 1 ELSE 0)

\* a * b for a, b >= 0, as <<hi, lo>> with a * b = hi * Scale + lo, lo < Scale
MulParts(a, b) ==
    LET a2 == a \div Scale
        a1 == (a \div Limb) % Limb
        a0 == a % Limb
        b2 == b \div Scale
        b1 == (b \div Limb) % Limb
        b0 == b % Limb
        frac == (a1 * b0 + a0 * b1) * Limb + a0 * b0
    IN  <<a2 * b2 * Scale + (a2 * b1 + a1 * b2) * Limb
             + a2 * b0 + a1 * b1 + a0 * b2 + (frac \div Scale),
          frac % Scale>>

\* <<hi, lo>> rounded to hi or hi + 1
RoundParts(hl) == hl[1] + (IF 2 * hl[2] >= Scale THEN 1 ELSE 0)

\* round(a * b / Scale) for a, b >= 0
MulPos(a, b) == RoundParts(MulParts(a, b))

\* the product of two fixed-point numbers (a function, so that the factors
\* are values when the product is formed)
Product[a \in Int, b \in Int] == Sgn(a) * Sgn(b) * MulPos(Abs(a), Abs(b))

FMul(a, b) == Product[a, b]

\* long division, one decimal digit of the quotient per step:
\* <<quotient, remainder>> of (r * 10^k) by d
RECURSIVE DivDigits(_, _, _, _)
DivDigits(q, r, d, k) ==
    IF k = 0 THEN <<q, r>>
    ELSE DivDigits(q * 10 + ((r * 10) \div d), (r * 10) % d, d, k - 1)

\* round(a * Scale / b) for a >= 0, b > 0
DivPos(a, b) ==
    LET qr == DivDigits(a \div b, a % b, b, 6)
    IN  qr[1] + (IF 2 * qr[2] >= b THEN 1 ELSE 0)

\* the quotient of two fixed-point numbers (b # 0)
FDiv(a, b) == Sgn(a) * Sgn(b) * DivPos(Abs(a), Abs(b))

\* the largest n in lo..hi with n * n <= a (as fixed-point numbers)
RECURSIVE SqrtBisect(_, _, _)
SqrtBisect(a, lo, hi) ==
    IF lo >= hi THEN lo
    ELSE LET mid == lo + ((hi - lo + 1) \div 2)
             sq == MulParts(mid, mid)
         IN  IF sq[1] < a \/ (sq[1] = a /\ sq[2] = 0)
             THEN SqrtBisect(a, mid, hi)
             ELSE SqrtBisect(a, lo, mid - 1)

\* Math.sqrt on fixed-point numbers (a >= 0)
FSqrt(a) == SqrtBisect(a, 0, 46 * Scale)

\* a decimal literal: Dec(105, 10) is 10.5
Dec(n, d) == (n \div d) * Scale + ((n % d) * Scale) \div d


(***************************************************************************)
(* Math.PI, Math.sin, Math.cos.  The argument is first brought into        *)
(* [-pi, pi], then to a series argument in [-pi/4, pi/4].                  *)
(***************************************************************************)
Pi == 3141593

RECURSIVE ReduceAngle(_)
ReduceAngle(x) ==
    IF x > Pi THEN ReduceAngle(x - 2 * Pi)
    ELSE IF x < -Pi THEN ReduceAngle(x + 2 * Pi)
    ELSE x

\* the series of the sine and of the cosine, in nested form; x2 is x * x
SinPoly(x, x2) ==
    x - FMul(FMul(x, x2) \div 6,
             Scale - FMul(x2 \div 20,
                          Scale - FMul(x2 \div 42, Scale - x2 \div 72)))

CosPoly(x2) ==
    Scale - FMul(x2 \div 2,
                 Scale - FMul(x2 \div 12,
                              Scale - FMul(x2 \div 30,
                                           Scale - FMul(x2 \div 56,
                                                        Scale - x2 \div 90))))

SinSeries(x) == SinPoly(x, FMul(x, x))
CosSeries(x) == CosPoly(FMul(x, x))

\* sin of an angle in [0, pi]
SinUpper(r) ==
    IF r <= Pi \div 4 THEN SinSeries(r)
    ELSE IF r <= 3 * (Pi \div 4) THEN CosSeries(Pi \div 2 - r)
    ELSE SinSeries(Pi - r)

\* sin of an angle in [-pi, pi]
SinReduced(r) == Sgn(r) * SinUpper(Abs(r))

Sin(x) == SinReduced(ReduceAngle(x))

Cos(x) == Sin(x + Pi \div 2)

(***************************************************************************)
(* Vectors (THREE.Vector3): triples of fixed-point numbers.                *)
(***************************************************************************)
VSub(p, q) == <<p[1] - q[1], p[2] - q[2], p[3] - q[3]>>
Dot(p, q) == FMul(p[1], q[1]) + FMul(p[2], q[2]) + FMul(p[3], q[3])
Length(p) == FSqrt(Dot(p, p))
distanceTo(p, q) == Length(VSub(p, q))
\* Vector3.normalize: divideScalar(length() || 1)
Normalize(p) ==
    LET len == Length(p)
        d == IF len = 0 THEN Scale ELSE len
    IN  <<FDiv(p[1], d), FDiv(p[2], d), FDiv(p[3], d)>>

(***************************************************************************)
(* getC60Vertices.  A raw coordinate a + b*phi is written <<a, b>>, as the *)
(* code writes it (3 * phi, 1 + 2 * phi, ...); Val gives its number.       *)
(***************************************************************************)
phi == FDiv(Scale + FSqrt(5 * Scale), 2 * Scale)

Val(c) == c[1] * Scale + c[2] * phi
Neg(c) == <<-c[1], -c[2]>>

\* Type 1: (0, +-1, +-3phi) and its cyclic permutations, in the code's order
Type1Coords ==
    LET z == <<0, 0>>
        o == <<1, 0>>
        t == <<0, 3>>
    IN  << <<z, o, t>>, <<z, o, Neg(t)>>, <<z, Neg(o), t>>, <<z, Neg(o), Neg(t)>>,
           <<o, t, z>>, <<Neg(o), t, z>>, <<o, Neg(t), z>>, <<Neg(o), Neg(t), z>>,
           <<t, z, o>>, <<Neg(t), z, o>>, <<t, z, Neg(o)>>, <<Neg(t), z, Neg(o)>> >>

\* the eight sign combinations of p, in the order of the forEach body
SignCombos(p) ==
    << <<p[1], p[2], p[3]>>, <<p[1], p[2], Neg(p[3])>>,
       <<p[1], Neg(p[2]), p[3]>>, <<p[1], Neg(p[2]), Neg(p[3])>>,
       <<Neg(p[1]), p[2], p[3]>>, <<Neg(p[1]), p[2], Neg(p[3])>>,
       <<Neg(p[1]), Neg(p[2]), p[3]>>, <<Neg(p[1]), Neg(p[2]), Neg(p[3])>> >>

\* Type 2: (+-2, +-(1+2phi), +-phi) and its cyclic permutations
p1 == << <<2, 0>>, <<1, 2>>, <<0, 1>> >>
p2 == << <<1, 2>>, <<0, 1>>, <<2, 0>> >>
p3 == << <<0, 1>>, <<2, 0>>, <<1, 2>> >>
\* Type 3: (+-1, +-(2+phi), +-2phi) and its cyclic permutations
p4 == << <<1, 0>>, <<2, 1>>, <<0, 2>> >>
p5 == << <<2, 1>>, <<0, 2>>, <<1, 0>> >>
p6 == << <<0, 2>>, <<1, 0>>, <<2, 1>> >>

preciseCoords ==
    Type1Coords \o SignCombos(p1) \o SignCombos(p2) \o SignCombos(p3)
                \o SignCombos(p4) \o SignCombos(p5) \o SignCombos(p6)

\* (mutant) the icosahedron's normalisation, sqrt(1 + phi * phi)
normFactor_Icosahedron == FSqrt(Scale + FMul(phi, phi))

normFactor == FSqrt(10 * Scale + 9 * phi)

\* coord / normFactor, then * radius
scaledVertices(radius) ==
    [i \in 1..Len(preciseCoords) |->
        [k \in 1..3 |-> FMul(FDiv(Val(preciseCoords[i][k]), normFactor), radius)]]

\* Number.prototype.toFixed(5): the sign and the magnitude rounded to 5
\* decimals; a negative number that rounds to zero prints as "-0.00000"
toFixed5(c) == <<c < 0, RoundDiv(Abs(c), Scale \div (10 ^ 5))>>
VertexKey(v) == <<toFixed5(v[1]), toFixed5(v[2]), toFixed5(v[3])>>

\* uniqueVerticesMap is a sequence of <<key, vertex>> in insertion order
MapHas(map, key) == \E n \in 1..Len(map) : map[n][1] = key

\* (mutant) uniqueVerticesMap.set(key, v) without the has() test: the entry
\* keeps its place and takes the later vertex
RoundedKeyStep_Overwrite(map, v) ==
    IF ~MapHas(map, VertexKey(v)) THEN Append(map, <<VertexKey(v), v>>)
    ELSE [n \in 1..Len(map) |->
             IF map[n][1] = VertexKey(v) THEN <<VertexKey(v), v>> ELSE map[n]]

\* the forEach body: if (!uniqueVerticesMap.has(key)) uniqueVerticesMap.set(key, v)
RoundedKeyStep(map, v) ==
    IF ~MapHas(map, VertexKey(v)) THEN Append(map, <<VertexKey(v), v>>) ELSE map

\* Array.from(uniqueVerticesMap.values())
MapValues(map) == [n \in 1..Len(map) |-> map[n][2]]

\* scaledVertices.forEach(...) over vs[lo..hi], starting from map (the range is
\* folded by halves: the order of the steps is that of the loop)
RECURSIVE RoundedKeyFilter(_, _, _, _)
RoundedKeyFilter(map, vs, lo, hi) ==
    IF lo > hi THEN map
    ELSE IF lo = hi THEN RoundedKeyStep(map, vs[lo])
    ELSE LET mid == (lo + hi) \div 2
         IN  \* (the left half's result is bound as a value before the right
             \* half runs)
             CHOOSE r \in { RoundedKeyFilter(left, vs, mid + 1, hi) :
                             left \in {RoundedKeyFilter(map, vs, lo, mid)} } : TRUE

getC60Vertices(radius) ==
    LET sv == scaledVertices(radius)
    IN  MapValues(RoundedKeyFilter(<<>>, sv, 1, Len(sv)))

(***************************************************************************)
(* buckyballVertices (the icosahedron of AILOGO.tsx and BuckyBall.tsx,     *)
(* second variant): the loops push (0, i, j phi) and its cyclic            *)
(* permutations for i, j in {-1, 1}; the result is scaled by               *)
(* BUCKYBALL_RADIUS / sqrt(1 + phi * phi).                                 *)
(***************************************************************************)
IcosahedronRadius == 2 * Scale

\* the values of i and j in the k-th pass of the inner loop body (k = 1..4)
LoopI(k) == IF k <= 2 THEN -1 ELSE 1
LoopJ(k) == IF k % 2 = 1 THEN -1 ELSE 1

\* the three vertices.push calls of one pass
IcosahedronPush(vertices, i, j) ==
    vertices \o << <<0, i * Scale, j * phi>>,
                   <<i * Scale, j * phi, 0>>,
                   <<j * phi, 0, i * Scale>> >>

\* (mutant) the scaling with the normalisation constant of the C60
IcosahedronScale_C60Norm(coord, r) == FDiv(FMul(coord, r), normFactor)

\* (coord * BUCKYBALL_RADIUS) / Math.sqrt(1 + phi * phi)
IcosahedronScale(coord, r) ==
    FDiv(FMul(coord, r), FSqrt(Scale + FMul(phi, phi)))

\* vertices.map(v => v.map(coord => ...))
IcosahedronMap(vertices, r) ==
    [n \in 1..Len(vertices) |->
        [k \in 1..3 |-> IcosahedronScale(vertices[n][k], r)]]


(***************************************************************************)
(* THREE.TorusGeometry(radius, tube, radialSegments, tubularSegments, arc): *)
(* the position attribute, vertex by vertex, j over the tube's cross        *)
(* section and i around the ring.  The seam rows (j = radialSegments,       *)
(* i = tubularSegments) repeat the first ones.                              *)
(***************************************************************************)
TORUS_RADIUS == 9 * Scale
TORUS_TUBE_RADIUS == Dec(15, 10)
TorusRadialSegments == 4
TorusTubularSegments == 16
VERTEX_PROXIMITY_THRESHOLD == Dec(5, 10)

TorusVertex(radius, tube, radialSegments, tubularSegments, arc, j, i) ==
    LET u == (i * arc) \div tubularSegments
        v == (j * 2 * Pi) \div radialSegments
        ring == radius + FMul(tube, Cos(v))
    IN  <<FMul(ring, Cos(u)), FMul(ring, Sin(u)), FMul(tube, Sin(v))>>

TorusGeometry(radius, tube, radialSegments, tubularSegments, arc) ==
    [n \in 1..((radialSegments + 1) * (tubularSegments + 1)) |->
        TorusVertex(radius, tube, radialSegments, tubularSegments, arc,
                    (n - 1) \div (tubularSegments + 1),
                    (n - 1) % (tubularSegments + 1))]

torusGeometry ==
    TorusGeometry(TORUS_RADIUS, TORUS_TUBE_RADIUS, TorusRadialSegments,
                  TorusTubularSegments, 2 * Pi)

\* getAllVerticesWithSource(torusGeometry, 'torus', allVertices)
allVertices == torusGeometry

\* (mutant) the test inverted: > instead of <
ProximityStep_Inverted(unique, v) ==
    LET isUnique == ~\E n \in 1..Len(unique) :
                        distanceTo(unique[n], v) > VERTEX_PROXIMITY_THRESHOLD
    IN  IF isUnique THEN Append(unique, v) ELSE unique

\* the body of the uniqueness loop of verticesInfo
ProximityStep(unique, v) ==
    LET isUnique == ~\E n \in 1..Len(unique) :
                        distanceTo(unique[n], v) < VERTEX_PROXIMITY_THRESHOLD
    IN  IF isUnique THEN Append(unique, v) ELSE unique

(***************************************************************************)
(* State.                                                                  *)
(*   De-duplication (the loops of getC60Vertices and of verticesInfo):     *)
(*     filter             "roundedKey" or "proximity"; "icosahedron" for   *)
(*                        buckyballVertices, which does not de-duplicate   *)
(*     radius             the argument of getC60Vertices; the radius of    *)
(*                        the torus; BUCKYBALL_RADIUS of the icosahedron   *)
(*     input              scaledVertices, or allVertices, or the vertices  *)
(*                        array of buckyballVertices                       *)
(*     idx                the position of the forEach / for-of loop        *)
(*     uniqueVerticesMap  the Map of getC60Vertices, in insertion order    *)
(*     uniqueVertices     the array of verticesInfo                        *)
(*     finalVertices      the returned array                               *)
(*     warned             console.warn was called                          *)
(*     pcDedup            "idle", "loop" or "returned"                     *)
(*   Label initialisation (the initialisation effect of the scenes):        *)
(*     variant            which scene runs                                 *)
(*     totalNodes         verticesVectors.length                           *)
(*     skillsLength       skills.length                                    *)
(*     initialSkills      the effect's local array                         *)
(*     shuffleI           the loop variable i of the shuffle               *)
(*     nodeSkills         the nodeSkills state                             *)
(*     pcInit             "idle", "effect", "shuffle", "done" or "skipped" *)
(* Arrays are functions on 0 .. length-1; a hole is "undefined", and NaN   *)
(* is "NaN".                                                               *)
(*   One label's visibility (SkillNode):                                   *)
(*     visible            the visible prop                                 *)
(*     labelPos           the label's position: its world position for the *)
(*                        sprite and z-depth variants, the position prop   *)
(*                        for the Html variants                            *)
(*     cameraPos          state.camera.position / the cameraPosition prop  *)
(*     cameraForward      (0, 0, -1) turned by state.camera.quaternion     *)
(*     parentFound        the z-depth variant found the r3f parent         *)
(*     opacity            the opacity state                                *)
(*     pcOpacity          "idle", "mounted" or "set"                       *)
(*   The scene (BuckyballScene, AILOGOScene) and its frame loop:           *)
(*     verticesVectors    the memoised vertex vectors of the nodes         *)
(*     rotation           groupRef.current.rotation, <<x, y, z>>           *)
(*     rotationVelocity   the rotationVelocity state                       *)
(*     frameCount         the frameCount state                             *)
(*     matrixWorld        groupRef.current.matrixWorld (its rotation part, *)
(*                        by rows)                                         *)
(*     cameraTheta        the angle of the camera about the y axis         *)
(*     nodesToUpdate      the nodesToUpdate state                          *)
(*     effectDue          the skill update effect has to run               *)
(*     nodeOpacity        the opacity state of each SkillNode              *)
(*     pcFrame            "none", "idle", "nodes", "scene" or "render"     *)
(*     velocityLog        (history) the velocity each frame callback read  *)
(*     scanMatrix         (history) the matrix the last frame's scan       *)
(*                        applied, <<>> if that frame did not scan         *)
(*     written            (history) the nodes the effect has just written  *)
(*   The build (vite.config: copySpecialFiles; test-build.js):             *)
(*     mode               the mode vite is run in                          *)
(*     rootDir            the names of the files in the project root       *)
(*     distDir            the names of the files in dist                   *)
(*     distAtBundle       (history) distDir when the bundle was written    *)
(*     buildThrew         a build hook has thrown                          *)
(*     distFiles          test-build.js: the names read from dist          *)
(*     logged             test-build.js: the lines written to the console  *)
(*     pcBuild            "none", "bundled", "closed" or "checked"         *)
(*   The frame callback and the renders of the scene (frameCount is the    *)
(*   committed state):                                                     *)
(*     closureFrameCount  the frameCount the registered callback closed    *)
(*                        over, the one of the render that made it         *)
(*     queuedUpdates      the updaters passed to setFrameCount that no     *)
(*                        render has applied yet (their number)            *)
(*     callbacksRun       the number of frame callbacks that have run      *)
(*     countLog           (history) the frameCount each callback read      *)
(*   The scene that shows labels on a random subset of the nodes and       *)
(*   refreshes the subset on a timer (BuckyBall.tsx, second scene):        *)
(*     mounted            the scene is mounted                             *)
(*     timers             the active intervals: id :> skills.length of the *)
(*                        updateVisibleNodes closure the interval calls    *)
(*     timerCount         the number of setInterval calls made             *)
(*     interval           the id the cleanup of the last effect run clears *)
(*                        (0: no effect has run)                           *)
(*     visibleNodes       the visibleNodes state                           *)
(*     newVisibleNodes    the array the running updateVisibleNodes fills   *)
(*     pcRefresh          "idle", or "loop" while updateVisibleNodes runs  *)
(*     numVisibleNodes    numVisibleNodes of the running call              *)
(*     refreshBy          "effect" or "timer": the caller of that call     *)
(*     rejected           (history) the draws the running call has         *)
(*                        rejected, counted up to MaxRejected              *)
(*     opacityDue         the SkillNode effects have to run                *)
(***************************************************************************)
VARIABLES filter, radius, input, idx, uniqueVerticesMap, uniqueVertices,
          finalVertices, warned, pcDedup,
          variant, totalNodes, skillsLength, initialSkills, shuffleI,
          nodeSkills, pcInit,
          visible, labelPos, cameraPos, cameraForward, parentFound, opacity,
          pcOpacity,
          rotation, rotationVelocity, frameCount, matrixWorld, cameraTheta,
          nodesToUpdate, effectDue, nodeOpacity, pcFrame, velocityLog,
          scanMatrix, written, verticesVectors,
          mode, rootDir, distDir, distAtBundle, buildThrew, distFiles, logged,
          pcBuild,
          closureFrameCount, queuedUpdates, callbacksRun, countLog,
          mounted, timers, timerCount, interval, visibleNodes,
          newVisibleNodes, pcRefresh, numVisibleNodes, refreshBy, rejected,
          opacityDue

dedupVars == <<filter, radius, input, idx, uniqueVerticesMap, uniqueVertices,
               finalVertices, warned, pcDedup>>

labelVars == <<variant, totalNodes, skillsLength, initialSkills, shuffleI,
               nodeSkills, pcInit>>

opacityVars == <<visible, labelPos, cameraPos, cameraForward, parentFound,
                 opacity, pcOpacity>>

sceneVars == <<rotation, rotationVelocity, frameCount, matrixWorld,
               cameraTheta, nodesToUpdate, effectDue, nodeOpacity, pcFrame,
               velocityLog, scanMatrix, written, verticesVectors>>

buildVars == <<mode, rootDir, distDir, distAtBundle, buildThrew, distFiles,
               logged, pcBuild>>

loopVars == <<closureFrameCount, queuedUpdates, callbacksRun, countLog>>

periodicVars == <<mounted, timers, timerCount, interval, visibleNodes,
                  newVisibleNodes, pcRefresh, numVisibleNodes, refreshBy,
                  rejected, opacityDue>>

vars == <<dedupVars, labelVars, opacityVars, sceneVars, buildVars, loopVars, periodicVars>>

\* the radii getC60Vertices is called with (BUCKYBALL_RADIUS of the variants)
ProgramRadii == {Dec(105, 10), 4 * Scale, 8 * Scale}
\* further arguments: 2, 1, 0.0001, 0.00001
OtherRadii == {2 * Scale, Scale, Dec(1, 10000), Dec(1, 100000)}
C60Radii == ProgramRadii \cup OtherRadii

DedupIdle ==
    /\ filter = "none" /\ radius = 0 /\ input = <<>> /\ idx = 0
    /\ uniqueVerticesMap = <<>> /\ uniqueVertices = <<>>
    /\ finalVertices = <<>> /\ warned = FALSE /\ pcDedup = "idle"

\* getC60Vertices(r) entered: scaledVertices computed, the Map empty
InitRoundedKey(r) ==
    /\ filter = "roundedKey" /\ radius = r /\ input = scaledVertices(r)
    /\ idx = 1 /\ uniqueVerticesMap = <<>> /\ uniqueVertices = <<>>
    /\ finalVertices = <<>> /\ warned = FALSE /\ pcDedup = "loop"

\* the verticesInfo memo entered: allVertices gathered, uniqueVertices empty
InitProximity ==
    /\ filter = "proximity" /\ radius = TORUS_RADIUS /\ input = allVertices
    /\ idx = 1 /\ uniqueVerticesMap = <<>> /\ uniqueVertices = <<>>
    /\ finalVertices = <<>> /\ warned = FALSE /\ pcDedup = "loop"

\* one iteration of scaledVertices.forEach
RoundedKeyForEach ==
    /\ pcDedup = "loop" /\ filter = "roundedKey" /\ idx <= Len(input)
    /\ uniqueVerticesMap' = RoundedKeyStep(uniqueVerticesMap, input[idx])
    /\ idx' = idx + 1
    /\ UNCHANGED <<filter, radius, input, uniqueVertices, finalVertices,
                   warned, pcDedup>>

\* finalVertices = Array.from(values()); the sanity check; return
RoundedKeyReturn ==
    /\ pcDedup = "loop" /\ filter = "roundedKey" /\ idx > Len(input)
    /\ finalVertices' = MapValues(uniqueVerticesMap)
    /\ warned' = (Len(uniqueVerticesMap) # 60)
    /\ pcDedup' = "returned"
    /\ UNCHANGED <<filter, radius, input, idx, uniqueVerticesMap, uniqueVertices>>

\* one iteration of for (const currentVertexInfo of allVertices)
ProximityForEach ==
    /\ pcDedup = "loop" /\ filter = "proximity" /\ idx <= Len(input)
    /\ uniqueVertices' = ProximityStep(uniqueVertices, input[idx])
    /\ idx' = idx + 1
    /\ UNCHANGED <<filter, radius, input, uniqueVerticesMap, finalVertices,
                   warned, pcDedup>>

\* return uniqueVertices
ProximityReturn ==
    /\ pcDedup = "loop" /\ filter = "proximity" /\ idx > Len(input)
    /\ finalVertices' = uniqueVertices
    /\ pcDedup' = "returned"
    /\ UNCHANGED <<filter, radius, input, idx, uniqueVerticesMap, uniqueVertices,
                   warned>>

\* buckyballVertices() entered: the vertices array empty
InitIcosahedron ==
    /\ filter = "icosahedron" /\ radius = IcosahedronRadius /\ input = <<>>
    /\ idx = 1 /\ uniqueVerticesMap = <<>> /\ uniqueVertices = <<>>
    /\ finalVertices = <<>> /\ warned = FALSE /\ pcDedup = "loop"

\* one pass of the inner loop of buckyballVertices
IcosahedronLoop ==
    /\ pcDedup = "loop" /\ filter = "icosahedron" /\ idx <= 4
    /\ input' = IcosahedronPush(input, LoopI(idx), LoopJ(idx))
    /\ idx' = idx + 1
    /\ UNCHANGED <<filter, radius, uniqueVerticesMap, uniqueVertices,
                   finalVertices, warned, pcDedup>>

\* return vertices.map(...)
IcosahedronReturn ==
    /\ pcDedup = "loop" /\ filter = "icosahedron" /\ idx > 4
    /\ finalVertices' = IcosahedronMap(input, radius)
    /\ pcDedup' = "returned"
    /\ UNCHANGED <<filter, radius, input, idx, uniqueVerticesMap,
                   uniqueVertices, warned>>

EmptyArray == <<>>
ArrayLength(a) == Cardinality(DOMAIN a)

LabelIdle ==
    /\ variant = "none" /\ totalNodes = 0 /\ skillsLength = 0
    /\ initialSkills = EmptyArray /\ shuffleI = 0
    /\ nodeSkills = EmptyArray /\ pcInit = "idle"

OpacityIdle ==
    /\ visible = FALSE /\ labelPos = <<0, 0, 0>> /\ cameraPos = <<0, 0, 0>>
    /\ cameraForward = <<0, 0, 0>> /\ parentFound = FALSE /\ opacity = 0
    /\ pcOpacity = "idle"

SceneIdle ==
    /\ rotation = <<0, 0, 0>> /\ rotationVelocity = <<0, 0, 0>>
    /\ frameCount = 0 /\ matrixWorld = <<>> /\ cameraTheta = 0
    /\ nodesToUpdate = <<>> /\ effectDue = FALSE /\ nodeOpacity = EmptyArray
    /\ pcFrame = "none" /\ velocityLog = <<>> /\ scanMatrix = <<>>
    /\ written = {} /\ verticesVectors = <<>>

BuildIdle ==
    /\ mode = "none" /\ rootDir = {} /\ distDir = {} /\ distAtBundle = {}
    /\ buildThrew = FALSE /\ distFiles = {} /\ logged = {} /\ pcBuild = "none"

LoopIdle ==
    /\ closureFrameCount = 0 /\ queuedUpdates = 0 /\ callbacksRun = 0
    /\ countLog = <<>>

PeriodicIdle ==
    /\ mounted = FALSE /\ timers = <<>> /\ timerCount = 0 /\ interval = 0
    /\ visibleNodes = <<>> /\ newVisibleNodes = <<>> /\ pcRefresh = "idle"
    /\ numVisibleNodes = 0 /\ refreshBy = "none" /\ rejected = 0
    /\ opacityDue = FALSE

InitGeom ==
    /\ \/ \E r \in C60Radii : InitRoundedKey(r)
       \/ InitProximity
       \/ InitIcosahedron
    /\ LabelIdle /\ OpacityIdle /\ SceneIdle /\ BuildIdle /\ LoopIdle /\ PeriodicIdle

NextGeom ==
    \/ RoundedKeyForEach /\ UNCHANGED <<labelVars, opacityVars, sceneVars, buildVars, loopVars, periodicVars>>
    \/ RoundedKeyReturn /\ UNCHANGED <<labelVars, opacityVars, sceneVars, buildVars, loopVars, periodicVars>>
    \/ ProximityForEach /\ UNCHANGED <<labelVars, opacityVars, sceneVars, buildVars, loopVars, periodicVars>>
    \/ ProximityReturn /\ UNCHANGED <<labelVars, opacityVars, sceneVars, buildVars, loopVars, periodicVars>>
    \/ IcosahedronLoop /\ UNCHANGED <<labelVars, opacityVars, sceneVars, buildVars, loopVars, periodicVars>>
    \/ IcosahedronReturn /\ UNCHANGED <<labelVars, opacityVars, sceneVars, buildVars, loopVars, periodicVars>>

SpecGeom == InitGeom /\ [][NextGeom]_vars

(***************************************************************************)
(* Label initialisation: the effect that fills nodeSkills.                 *)
(*   "part_003"   cycle and shuffle, guarded by skills.length > 0,         *)
(*                verticesVectors.length > 0 and nodeSkills.length === 0   *)
(*   "BuckyBall"  cycle and shuffle, guarded by nodeSkills.length === 0    *)
(*   "AILOGO"     one random index per node, guarded by                    *)
(*                verticesInfo.length > 0 and skills.length > 0            *)
(***************************************************************************)
MaxNodes == 4
MaxLabels == 3

ShuffleVariants == {"part_003", "BuckyBall"}
InitVariants == ShuffleVariants \cup {"AILOGO"}

\* (mutant) the cycle taken over the nodes instead of the skills
CycleIndex_OverNodes(i, nodes, labels) == i % nodes

\* initialSkills[i] = i % skills.length (NaN when skills is empty)
CycleIndex(i, nodes, labels) == IF labels = 0 THEN "NaN" ELSE i % labels

\* (mutant) the swap written as two assignments, without a temporary
SwapEntries_NoTemp(a, i, j) == [a EXCEPT ![i] = a[j]]

\* [a[i], a[j]] = [a[j], a[i]]
SwapEntries(a, i, j) == [a EXCEPT ![i] = a[j], ![j] = a[i]]

\* the guard of the initialisation effect
InitGuard ==
    CASE variant = "part_003" ->
            skillsLength > 0 /\ totalNodes > 0 /\ ArrayLength(nodeSkills) = 0
      [] variant = "BuckyBall" -> ArrayLength(nodeSkills) = 0
      [] variant = "AILOGO" -> totalNodes > 0 /\ skillsLength > 0

\* the guard fails: the effect does nothing
InitEffectSkip ==
    /\ pcInit = "effect" /\ ~InitGuard
    /\ pcInit' = "skipped"
    /\ UNCHANGED <<variant, totalNodes, skillsLength, initialSkills, shuffleI,
                   nodeSkills>>

\* new Array(totalNodes), then the cycling for loop
InitCycle ==
    /\ pcInit = "effect" /\ variant \in ShuffleVariants /\ InitGuard
    /\ initialSkills' = [i \in 0..(totalNodes - 1) |->
                            CycleIndex(i, totalNodes, skillsLength)]
    /\ shuffleI' = totalNodes - 1
    /\ pcInit' = "shuffle"
    /\ UNCHANGED <<variant, totalNodes, skillsLength, nodeSkills>>

\* one iteration of the Fisher-Yates loop: j = Math.floor(Math.random() * (i + 1))
ShuffleSwap ==
    /\ pcInit = "shuffle" /\ shuffleI > 0
    /\ \E j \in 0..shuffleI :
          initialSkills' = SwapEntries(initialSkills, shuffleI, j)
    /\ shuffleI' = shuffleI - 1
    /\ UNCHANGED <<variant, totalNodes, skillsLength, nodeSkills, pcInit>>

\* setNodeSkills(initialSkills)
InitCommit ==
    /\ pcInit = "shuffle" /\ shuffleI <= 0
    /\ nodeSkills' = initialSkills
    /\ pcInit' = "done"
    /\ UNCHANGED <<variant, totalNodes, skillsLength, initialSkills, shuffleI>>

\* Array(n).fill(0).map(() => Math.floor(Math.random() * skills.length)),
\* then setNodeSkills
InitRandom ==
    /\ pcInit = "effect" /\ variant = "AILOGO" /\ InitGuard
    /\ \E a \in [0..(totalNodes - 1) -> 0..(skillsLength - 1)] :
          /\ initialSkills' = a
          /\ nodeSkills' = a
    /\ pcInit' = "done"
    /\ UNCHANGED <<variant, totalNodes, skillsLength, shuffleI>>

\* the render of node i: nodeSkills[i] !== undefined ? nodeSkills[i] %
\* skills.length : 0 (anything % 0 is NaN)
skillIndex(i) ==
    IF i \notin DOMAIN nodeSkills THEN 0
    ELSE IF skillsLength = 0 THEN "NaN"
    ELSE nodeSkills[i] % skillsLength

\* the text prop of the SkillNode of node i, as <<kind, index>>:
\*   <<"skill", k>>      skills[k]
\*   <<"literal", 0>>    the string "Skill"
\*   <<"undefined", 0>>  undefined: the label shows no text
\*   <<"unmounted", 0>>  no SkillNode is rendered for the node
\* part_003:      skills[skillIndex] || skills[0] || "Skill"
\* BuckyBall.tsx: skills[skillIndex] || skills[0]
\* AILOGO.tsx:    null unless nodeSkills[i] is defined and skills[it] exists
text(i) ==
    CASE variant = "AILOGO" ->
            IF i \in DOMAIN nodeSkills /\ skillsLength > 0
            THEN <<"skill", nodeSkills[i]>> ELSE <<"unmounted", 0>>
      [] variant = "part_003" ->
            IF skillsLength > 0 THEN <<"skill", skillIndex(i)>>
            ELSE <<"literal", 0>>
      [] variant = "BuckyBall" ->
            IF skillsLength > 0 THEN <<"skill", skillIndex(i)>>
            ELSE <<"undefined", 0>>

InitLabels ==
    /\ DedupIdle /\ OpacityIdle /\ SceneIdle /\ BuildIdle /\ LoopIdle /\ PeriodicIdle
    /\ variant \in InitVariants
    /\ totalNodes \in 1..MaxNodes
    /\ skillsLength \in 0..MaxLabels
    /\ initialSkills = EmptyArray /\ shuffleI = 0
    /\ nodeSkills = EmptyArray /\ pcInit = "effect"

NextLabels ==
    \/ InitEffectSkip /\ UNCHANGED <<dedupVars, opacityVars, sceneVars, buildVars, loopVars, periodicVars>>
    \/ InitCycle /\ UNCHANGED <<dedupVars, opacityVars, sceneVars, buildVars, loopVars, periodicVars>>
    \/ ShuffleSwap /\ UNCHANGED <<dedupVars, opacityVars, sceneVars, buildVars, loopVars, periodicVars>>
    \/ InitCommit /\ UNCHANGED <<dedupVars, opacityVars, sceneVars, buildVars, loopVars, periodicVars>>
    \/ InitRandom /\ UNCHANGED <<dedupVars, opacityVars, sceneVars, buildVars, loopVars, periodicVars>>

SpecLabels == InitLabels /\ [][NextLabels]_vars

(***************************************************************************)
(* The visibility model: the opacity a SkillNode sets.                     *)
(*   "billboard"  the sprite variants (part_003, AILOGO.tsx, BuckyBall.tsx)*)
(*   "htmlDot"    Html label, useFrame, camera from the frame state        *)
(*   "effectDot"  Html label, useEffect, camera from the cameraPosition    *)
(*                prop                                                     *)
(*   "zDepth"     Html label, useFrame, world z                            *)
(***************************************************************************)
Min(a, b) == IF a < b THEN a ELSE b
Max(a, b) == IF a > b THEN a ELSE b

\* (mutant) the distance fade taken from distance 0 instead of from
\* fullOpacityDistanceStart
BillboardOpacity_FadeFromZero(worldPos, camPos, forward) ==
    LET distanceToCamera == distanceTo(worldPos, camPos)
        dotProduct == Dot(Normalize(VSub(worldPos, camPos)), forward)
        distanceFactor ==
            Max(0, Min(Scale, Scale - FDiv(distanceToCamera, 25 * Scale)))
    IN  IF dotProduct < -Dec(1, 10) \/ distanceToCamera > 40 * Scale
        THEN 0
        ELSE IF dotProduct > Dec(1, 10) THEN FMul(Dec(5, 10), distanceFactor)
        ELSE Dec(15, 100)

\* the sprite's opacity from its world position
BillboardOpacity(worldPos, camPos, forward) ==
    LET distanceToCamera == distanceTo(worldPos, camPos)
        directionToCamera == Normalize(VSub(worldPos, camPos))
        dotProduct == Dot(directionToCamera, forward)
        maxOpacity == Dec(5, 10)
        sideViewOpacity == Dec(15, 100)
        visibilityDistanceThreshold == 40 * Scale
        fullOpacityDistanceStart == 15 * Scale
        fullOpacityDistanceEnd == fullOpacityDistanceStart + 25 * Scale
        distanceFactor ==
            Max(0, Min(Scale,
                Scale - FDiv(distanceToCamera - fullOpacityDistanceStart,
                             fullOpacityDistanceEnd - fullOpacityDistanceStart)))
    IN  IF dotProduct < -Dec(1, 10) \/ distanceToCamera > visibilityDistanceThreshold
        THEN 0
        ELSE IF dotProduct > Dec(1, 10) THEN FMul(maxOpacity, distanceFactor)
        ELSE sideViewOpacity

\* the Html label's opacity from its position prop (BuckyBall.tsx, first scene)
HtmlDotOpacity(positionVector, camPos) ==
    LET distance == Length(VSub(positionVector, camPos))
        dotProduct == Dot(Normalize(positionVector), Normalize(camPos))
    IN  IF dotProduct < -Dec(3, 10) \/ distance > 35 * Scale THEN 0
        ELSE IF distance < 25 * Scale
        THEN Min(FDiv(35 * Scale - distance, 10 * Scale), Dec(8, 10))
        ELSE Dec(4, 10)

\* (mutant) the fade without its clamp to 1
EffectDotOpacity_Unclamped(positionVector, camPos) ==
    LET distance == Length(VSub(positionVector, camPos))
        dotProduct == Dot(Normalize(positionVector), Normalize(camPos))
    IN  IF dotProduct < -Dec(3, 10) \/ distance > Dec(75, 10) THEN 0
        ELSE IF distance < 5 * Scale
        THEN FDiv(10 * Scale - distance, 5 * Scale)
        ELSE Dec(5, 10)

\* the Html label's opacity from its position prop and the cameraPosition prop
EffectDotOpacity(positionVector, camPos) ==
    LET distance == Length(VSub(positionVector, camPos))
        dotProduct == Dot(Normalize(positionVector), Normalize(camPos))
    IN  IF dotProduct < -Dec(3, 10) \/ distance > Dec(75, 10) THEN 0
        ELSE IF distance < 5 * Scale
        THEN Min(FDiv(10 * Scale - distance, 5 * Scale), Scale)
        ELSE Dec(5, 10)

\* the Html label's opacity from its world z
ZDepthOpacity(worldPos) ==
    LET zDistance == worldPos[3]
    IN  IF zDistance < -7 * Scale THEN 0
        ELSE IF zDistance > 7 * Scale THEN Dec(9, 10)
        ELSE FMul(Dec(9, 10), Scale - FDiv(Abs(zDistance), 7 * Scale))

OpacityVariants == {"billboard", "htmlDot", "effectDot", "zDepth"}

\* useState(0.5) in the sprite variants, useState(0) in the Html variants
InitialOpacity(v) == IF v = "billboard" THEN Dec(5, 10) ELSE 0

\* the body of the SkillNode's useFrame / useEffect
SkillNodeOpacity ==
    /\ pcOpacity = "mounted"
    /\ opacity' =
         CASE variant = "billboard" ->
                 IF ~visible THEN opacity
                 ELSE BillboardOpacity(labelPos, cameraPos, cameraForward)
           [] variant = "htmlDot" ->
                 IF ~visible THEN 0 ELSE HtmlDotOpacity(labelPos, cameraPos)
           [] variant = "effectDot" ->
                 IF ~visible THEN 0 ELSE EffectDotOpacity(labelPos, cameraPos)
           [] variant = "zDepth" ->
                 IF ~visible THEN 0
                 ELSE IF parentFound THEN ZDepthOpacity(labelPos)
                 ELSE opacity
    /\ pcOpacity' = "set"
    /\ UNCHANGED <<variant, visible, labelPos, cameraPos, cameraForward,
                   parentFound>>

\* the coordinates the label positions and camera positions are drawn from
MaxCoordSteps == 2
CoordStep == Dec(35, 10)
Coords == {k * CoordStep : k \in (-MaxCoordSteps)..MaxCoordSteps}
DepthCoords == Coords \cup {-22 * Scale, -12 * Scale, -5 * Scale, 6 * Scale,
                            12 * Scale, 19 * Scale}
\* the cameras of the Canvas elements: z = 20, 12, 7, 9, 25; and a camera
\* that has been orbited to the x axis
CameraPositions == {<<0, 0, 20 * Scale>>, <<0, 0, 12 * Scale>>,
                    <<0, 0, 7 * Scale>>, <<12 * Scale, 0, 0>>}
ForwardVectors == {<<0, 0, -Scale>>, <<-Scale, 0, 0>>, <<0, Scale, 0>>,
                   <<0, 0, Scale>>}

\* <fog attach="fog" args={[colour, near, far]} /> of the canvas of each
\* label variant
fogNear(v) ==
    CASE v = "billboard" -> 15 * Scale
      [] v = "htmlDot" -> 8 * Scale
      [] v = "effectDot" -> 2 * Scale
      [] v = "zDepth" -> 7 * Scale

fogFar(v) ==
    CASE v = "billboard" -> 25 * Scale
      [] v = "htmlDot" -> 20 * Scale
      [] v = "effectDot" -> 8 * Scale
      [] v = "zDepth" -> 15 * Scale

\* camera={{ position: [0, 0, z] }} of the same canvas
CanvasCamera(v) ==
    CASE v = "billboard" -> <<0, 0, 20 * Scale>>
      [] v = "htmlDot" -> <<0, 0, 12 * Scale>>
      [] v = "effectDot" -> <<0, 0, 7 * Scale>>
      [] v = "zDepth" -> <<0, 0, 12 * Scale>>

\* the camera distances between which the opacity of a label comes down to
\* 0: fullOpacityDistanceStart and visibilityDistanceThreshold of the sprite,
\* the two distance thresholds of the Html labels
DistanceThresholds(v) ==
    CASE v = "billboard" -> <<15 * Scale, 40 * Scale>>
      [] v = "htmlDot" -> <<25 * Scale, 35 * Scale>>
      [] v = "effectDot" -> <<5 * Scale, Dec(75, 10)>>

\* the position props of the labels
LabelPositions == Coords \X {0, CoordStep} \X DepthCoords

InitOpacity ==
    /\ DedupIdle /\ SceneIdle /\ BuildIdle /\ LoopIdle /\ PeriodicIdle
    /\ variant \in OpacityVariants
    /\ totalNodes = 0 /\ skillsLength = 0 /\ initialSkills = EmptyArray
    /\ shuffleI = 0 /\ nodeSkills = EmptyArray /\ pcInit = "idle"
    /\ visible \in BOOLEAN
    /\ labelPos \in LabelPositions
    /\ cameraPos \in CameraPositions
    /\ cameraForward \in ForwardVectors
    /\ parentFound \in BOOLEAN
    /\ opacity = InitialOpacity(variant)
    /\ pcOpacity = "mounted"

NextOpacity ==
    SkillNodeOpacity /\ UNCHANGED <<dedupVars, totalNodes, skillsLength,
                                    initialSkills, shuffleI, nodeSkills, pcInit,
                                    sceneVars, buildVars, loopVars, periodicVars>>

SpecOpacity == InitOpacity /\ [][NextOpacity]_vars

(***************************************************************************)
(* The scene: the frame loop of the canvas.  One frame runs, in order, the *)
(* OrbitControls update (where the canvas has controls), the SkillNodes'   *)
(* frame callbacks, the scene's frame callback and the renderer; React     *)
(* then commits the state updates of the frame and runs the effects whose  *)
(* dependencies changed.  A frame callback is subscribed once the group is *)
(* attached to groupRef, so the guard on groupRef.current passes.          *)
(*   "part_003"   BuckyballScene with the random-walk rotation             *)
(*   "AILOGO"     AILOGOScene (torus)                                      *)
(*   "BuckyBall"  BuckyballScene of BuckyBall.tsx, constant rotation, Html *)
(*                labels, OrbitControls autoRotate                         *)
(***************************************************************************)
SceneVariants == {"part_003", "AILOGO", "BuckyBall"}

\* Matrix4.makeRotationFromEuler for the order XYZ, by rows: a, b are the
\* cosine and sine of x, c, d those of y, ee, f those of z.  The group has no
\* translation and unit scale, so this is its matrix.
EulerRows(a, b, c, d, ee, f, ae, af, be, bf) ==
    << <<FMul(c, ee), -FMul(c, f), d>>,
       <<af + FMul(be, d), ae - FMul(bf, d), -FMul(b, c)>>,
       <<bf - FMul(ae, d), be + FMul(af, d), FMul(a, c)>> >>

EulerXYZ(a, b, c, d, ee, f) ==
    EulerRows(a, b, c, d, ee, f, FMul(a, ee), FMul(a, f), FMul(b, ee), FMul(b, f))

RotationMatrix(e) ==
    EulerXYZ(Cos(e[1]), Sin(e[1]), Cos(e[2]), Sin(e[2]), Cos(e[3]), Sin(e[3]))

\* vec.clone().applyMatrix4(m)
applyMatrix4(vec, m) == <<Dot(m[1], vec), Dot(m[2], vec), Dot(m[3], vec)>>

\* the uniqueness loop of verticesInfo over vs[lo..hi] (folded by halves, in
\* the order of the loop)
RECURSIVE ProximityFilter(_, _, _, _)
ProximityFilter(unique, vs, lo, hi) ==
    IF lo > hi THEN unique
    ELSE IF lo = hi THEN ProximityStep(unique, vs[lo])
    ELSE LET mid == (lo + hi) \div 2
         IN  CHOOSE r \in { ProximityFilter(left, vs, mid + 1, hi) :
                             left \in {ProximityFilter(unique, vs, lo, mid)} } : TRUE

verticesInfo == ProximityFilter(<<>>, allVertices, 1, Len(allVertices))

BUCKYBALL_RADIUS == Dec(105, 10)
SKILL_SWAP_DEPTH_THRESHOLD_FACTOR == Dec(15, 10)
BuckyBallTsxRadius == 4 * Scale

C60Canonical == getC60Vertices(BUCKYBALL_RADIUS)
C60BuckyBallTsx == getC60Vertices(BuckyBallTsxRadius)

\* The scene is followed on these nodes of the vertex list (positions in the
\* list, from 1): the scan and the effects treat each node on its own.
TrackedNodes == <<1, 2, 11, 48>>

AllVertices(v) ==
    CASE v = "part_003" -> C60Canonical
      [] v = "BuckyBall" -> C60BuckyBallTsx
      [] v = "AILOGO" -> verticesInfo
      [] v = "part_002" -> getC60Vertices(8 * Scale)
      [] v = "AILOGO_zDepth" -> C60BuckyBallTsx
      [] v = "BuckyBall_sprite" -> C60Canonical

\* useMemo: the vectors of the followed nodes
TrackedVectors(all) == [k \in 1..Len(TrackedNodes) |-> all[TrackedNodes[k]]]

\* the vector of the node with (array) index n
NodeVector(n) == verticesVectors[n + 1]

\* the camera of the canvas: position [0, 0, z]
CameraDistance(v) ==
    CASE v = "part_003" -> 20 * Scale
      [] v = "AILOGO" -> 25 * Scale
      [] v = "BuckyBall" -> 12 * Scale

\* OrbitControls autoRotate: one update turns the camera about the y axis by
\* 2 pi / 60 / 60 * autoRotateSpeed (rotateLeft: theta decreases)
AutoRotateSpeed == Dec(3, 10)
AutoRotationAngle == FMul((2 * Pi) \div 3600, AutoRotateSpeed)

CameraPosition(v, theta) ==
    <<FMul(CameraDistance(v), Sin(theta)), 0, FMul(CameraDistance(v), Cos(theta))>>

\* (mutant) the z axis left out of the rotation
ApplyRotation_NoZ(rot, vel) == <<rot[1] + vel[1], rot[2] + vel[2], rot[3]>>

\* groupRef.current.rotation.x += ..., .y += ..., .z += ...
ApplyRotation(rot, vel) == <<rot[1] + vel[1], rot[2] + vel[2], rot[3] + vel[3]>>

InitialRotationVelocity == <<Dec(5, 10000), Dec(1, 1000), Dec(25, 100000)>>
BuckyBallTsxVelocity == <<Dec(5, 10000), Dec(2, 1000), 0>>

\* the values Math.random() is drawn from
RandomSamples == {0, Scale - 1}

\* (mutant) every component kept within +-0.002 after the perturbation
RandomWalk_Clamped(prev, rx, ry, rz) ==
    LET changeFactor == Dec(5, 10000)
        clamp(x) == IF x > Dec(2, 1000) THEN Dec(2, 1000)
                    ELSE IF x < -Dec(2, 1000) THEN -Dec(2, 1000) ELSE x
    IN  <<clamp(prev[1] + FMul(rx - Dec(5, 10), changeFactor)),
          clamp(prev[2] + FMul(ry - Dec(5, 10), changeFactor)),
          clamp(prev[3] + FMul(rz - Dec(5, 10), FMul(changeFactor, Dec(4, 10))))>>

\* (mutant) the z component perturbed by the full changeFactor
RandomWalk_FullZ(prev, rx, ry, rz) ==
    LET changeFactor == Dec(5, 10000)
    IN  <<prev[1] + FMul(rx - Dec(5, 10), changeFactor),
          prev[2] + FMul(ry - Dec(5, 10), changeFactor),
          prev[3] + FMul(rz - Dec(5, 10), changeFactor)>>

\* the updater of setRotationVelocity, with changeFactor = 0.0005
RandomWalk(prev, rx, ry, rz) ==
    LET changeFactor == Dec(5, 10000)
    IN  <<prev[1] + FMul(rx - Dec(5, 10), changeFactor),
          prev[2] + FMul(ry - Dec(5, 10), changeFactor),
          prev[3] + FMul(rz - Dec(5, 10), FMul(changeFactor, Dec(4, 10)))>>

NodeIndices == [k \in 1..Len(verticesVectors) |-> k - 1]

\* the scan of part_003 and AILOGO.tsx: the nodes whose world z lies below
\* the swap depth
DepthScan(m, skillSwapDepth) ==
    SelectSeq(NodeIndices,
              LAMBDA n : applyMatrix4(NodeVector(n), m)[3] < skillSwapDepth)

\* the scan of BuckyBall.tsx: the nodes on the far side of the origin from
\* the camera
FarSideScan(m, camPos) ==
    SelectSeq(NodeIndices,
              LAMBDA n :
                LET worldPos == applyMatrix4(NodeVector(n), m)
                    distance == Length(VSub(worldPos, camPos))
                    dotProduct == Dot(Normalize(worldPos), Normalize(camPos))
                IN  dotProduct < -Dec(3, 10) /\ distance > BuckyBallTsxRadius * 2)

Range(s) == {s[k] : k \in DOMAIN s}

MaxFrames == 62
MaxSceneLabels == 2

\* Math.floor(Math.random() * skills.length)
RandomSkillIndices == IF skillsLength = 0 THEN {0} ELSE 0..(skillsLength - 1)

\* a frame may begin: the effects of the last commit have run
FrameMayBegin ==
    pcFrame = "idle" /\ ~effectDue /\ Len(velocityLog) < MaxFrames

\* controls.update() with autoRotate (BuckyBall.tsx)
OrbitControlsUpdate ==
    /\ variant = "BuckyBall" /\ FrameMayBegin
    /\ cameraTheta' = cameraTheta - AutoRotationAngle
    /\ pcFrame' = "nodes"
    /\ UNCHANGED <<rotation, rotationVelocity, frameCount, matrixWorld,
                   nodesToUpdate, effectDue, nodeOpacity, velocityLog,
                   scanMatrix, written, verticesVectors, labelVars>>

\* AILOGO.tsx renders a SkillNode only for a node whose skill exists
SkillNodeMounted(n) ==
    variant = "AILOGO" =>
        /\ n \in DOMAIN nodeSkills
        /\ nodeSkills[n] \in 0..(skillsLength - 1)

\* the frame callbacks of the SkillNodes.  The sprite's getWorldPosition
\* brings the world matrices of the sprite and of the group up to date with
\* the group's rotation; the Html label reads its position prop.
SkillNodeUseFrame ==
    /\ \/ pcFrame = "nodes"
       \/ variant # "BuckyBall" /\ FrameMayBegin
    /\ IF variant = "BuckyBall"
       THEN /\ nodeOpacity' =
                 [n \in 0..(totalNodes - 1) |->
                     HtmlDotOpacity(NodeVector(n),
                                    CameraPosition(variant, cameraTheta))]
            /\ UNCHANGED matrixWorld
       ELSE /\ matrixWorld' = IF \E n \in 0..(totalNodes - 1) : SkillNodeMounted(n)
                              THEN RotationMatrix(rotation) ELSE matrixWorld
            /\ nodeOpacity' =
                 [n \in 0..(totalNodes - 1) |->
                     IF SkillNodeMounted(n)
                     THEN BillboardOpacity(
                              applyMatrix4(NodeVector(n), matrixWorld'),
                              CameraPosition(variant, cameraTheta),
                              <<0, 0, -Scale>>)
                     ELSE nodeOpacity[n]]
    /\ pcFrame' = "scene"
    /\ UNCHANGED <<rotation, rotationVelocity, frameCount, cameraTheta,
                   nodesToUpdate, effectDue, velocityLog, scanMatrix, written,
                   verticesVectors, labelVars>>

\* the frame callback of part_003 and AILOGO.tsx: rotation, random walk of
\* the velocity every 60 frames, frame counter, depth scan every 10 frames
RandomWalkUseFrame(skillSwapDepth, scanGuard) ==
    /\ pcFrame = "scene"
    /\ rotation' = ApplyRotation(rotation, rotationVelocity)
    /\ velocityLog' = Append(velocityLog, rotationVelocity)
    /\ IF frameCount % 60 = 0
       THEN \E rx \in RandomSamples, ry \in RandomSamples, rz \in RandomSamples :
               rotationVelocity' = RandomWalk(rotationVelocity, rx, ry, rz)
       ELSE UNCHANGED rotationVelocity
    /\ frameCount' = frameCount + 1
    /\ IF frameCount % 10 = 0 /\ scanGuard
       THEN LET nodesToTriggerUpdate ==
                    DepthScan(matrixWorld, skillSwapDepth)
            IN  /\ scanMatrix' = matrixWorld
                /\ IF Len(nodesToTriggerUpdate) > 0
                   THEN nodesToUpdate' = nodesToTriggerUpdate /\ effectDue' = TRUE
                   ELSE UNCHANGED <<nodesToUpdate, effectDue>>
       ELSE scanMatrix' = <<>> /\ UNCHANGED <<nodesToUpdate, effectDue>>
    /\ written' = {}
    /\ pcFrame' = "render"
    /\ UNCHANGED <<matrixWorld, cameraTheta, nodeOpacity, verticesVectors,
                   labelVars>>

BuckyballSceneUseFrame ==
    /\ variant = "part_003"
    /\ RandomWalkUseFrame(-FMul(BUCKYBALL_RADIUS, SKILL_SWAP_DEPTH_THRESHOLD_FACTOR),
                          TRUE)

AILOGOSceneUseFrame ==
    /\ variant = "AILOGO"
    /\ RandomWalkUseFrame(-FMul(TORUS_RADIUS, SKILL_SWAP_DEPTH_THRESHOLD_FACTOR),
                          skillsLength > 0 /\ totalNodes > 0)

\* (mutant) the frame callback gives the marked nodes the label 0 itself
BuckyBallTsxUseFrame_WritesSkills ==
    /\ variant = "BuckyBall" /\ pcFrame = "scene"
    /\ rotation' = ApplyRotation(rotation, BuckyBallTsxVelocity)
    /\ velocityLog' = Append(velocityLog, BuckyBallTsxVelocity)
    /\ frameCount' = (frameCount + 1) % 10
    /\ IF frameCount = 0
       THEN LET newNodesToUpdate ==
                    FarSideScan(matrixWorld,
                                CameraPosition(variant, cameraTheta))
            IN  /\ scanMatrix' = matrixWorld
                /\ nodeSkills' = [n \in DOMAIN nodeSkills |->
                                    IF n \in Range(newNodesToUpdate)
                                    THEN 0 ELSE nodeSkills[n]]
       ELSE scanMatrix' = <<>> /\ UNCHANGED nodeSkills
    /\ written' = {}
    /\ pcFrame' = "render"
    /\ UNCHANGED <<rotationVelocity, matrixWorld, cameraTheta, nodeOpacity,
                   verticesVectors, nodesToUpdate, effectDue, variant,
                   totalNodes, skillsLength, initialSkills, shuffleI, pcInit>>

\* the frame callback of BuckyBall.tsx: constant rotation, counter modulo 10,
\* far-side scan when the counter is 0
BuckyBallTsxUseFrame ==
    /\ variant = "BuckyBall" /\ pcFrame = "scene"
    /\ rotation' = ApplyRotation(rotation, BuckyBallTsxVelocity)
    /\ velocityLog' = Append(velocityLog, BuckyBallTsxVelocity)
    /\ frameCount' = (frameCount + 1) % 10
    /\ IF frameCount = 0
       THEN LET newNodesToUpdate ==
                    FarSideScan(matrixWorld,
                                CameraPosition(variant, cameraTheta))
            IN  /\ scanMatrix' = matrixWorld
                /\ IF Len(newNodesToUpdate) > 0
                   THEN nodesToUpdate' = newNodesToUpdate /\ effectDue' = TRUE
                   ELSE UNCHANGED <<nodesToUpdate, effectDue>>
       ELSE scanMatrix' = <<>> /\ UNCHANGED <<nodesToUpdate, effectDue>>
    /\ written' = {}
    /\ pcFrame' = "render"
    /\ UNCHANGED <<rotationVelocity, matrixWorld, cameraTheta, nodeOpacity,
                   verticesVectors, labelVars>>

\* gl.render(scene, camera): scene.updateMatrixWorld() composes the group's
\* world matrix from its rotation
Render ==
    /\ pcFrame = "render"
    /\ matrixWorld' = RotationMatrix(rotation)
    /\ pcFrame' = "idle"
    /\ UNCHANGED <<rotation, rotationVelocity, frameCount, cameraTheta,
                   nodesToUpdate, effectDue, nodeOpacity, velocityLog,
                   scanMatrix, written, verticesVectors, labelVars>>

\* (mutant) the guard of part_003 in every variant
UpdateGuard_AllNeedSkills ==
    Len(nodesToUpdate) > 0 /\ skillsLength > 0

\* the guard of the skill update effect
UpdateGuard ==
    CASE variant = "part_003" -> Len(nodesToUpdate) > 0 /\ skillsLength > 0
      [] variant \in {"BuckyBall", "AILOGO_icosahedron"} ->
            Len(nodesToUpdate) > 0
      [] variant = "AILOGO" ->
            /\ Len(nodesToUpdate) > 0 /\ skillsLength > 0
            /\ ArrayLength(nodeSkills) > 0

\* the nodes the effect writes: AILOGO.tsx skips an index outside nodeSkills
UpdateTargets ==
    IF variant = "AILOGO"
    THEN {n \in Range(nodesToUpdate) : n >= 0 /\ n < ArrayLength(nodeSkills)}
    ELSE Range(nodesToUpdate)

\* (mutant) newSkills started empty instead of as a copy of prev
setNodeSkillsUpdater_NoCopy(prev, targets, pick) ==
    [n \in targets |-> pick[n]]

\* the updater passed to setNodeSkills: newSkills = [...prev], then
\* newSkills[nodeIndex] = (the index drawn for nodeIndex) for each target
setNodeSkillsUpdater(prev, targets, pick) ==
    [n \in DOMAIN prev \cup targets |->
        IF n \in targets THEN pick[n] ELSE prev[n]]

\* the skill update effect, run after a commit in which nodesToUpdate changed
\* (and once on mount): every marked node gets a random index, and the list
\* is reset, which runs the effect once more
SkillUpdateEffect ==
    /\ pcFrame = "idle" /\ effectDue
    /\ IF UpdateGuard
       THEN /\ \E pick \in [UpdateTargets -> RandomSkillIndices] :
                  nodeSkills' = setNodeSkillsUpdater(nodeSkills, UpdateTargets, pick)
            /\ written' = UpdateTargets
            /\ nodesToUpdate' = <<>>
            /\ UNCHANGED effectDue
       ELSE /\ effectDue' = FALSE
            /\ written' = {}
            /\ UNCHANGED <<nodeSkills, nodesToUpdate>>
    /\ UNCHANGED <<rotation, rotationVelocity, frameCount, matrixWorld,
                   cameraTheta, nodeOpacity, pcFrame, velocityLog, scanMatrix,
                   verticesVectors, variant, totalNodes, skillsLength,
                   initialSkills, shuffleI, pcInit>>

InitScene ==
    /\ DedupIdle /\ OpacityIdle /\ BuildIdle /\ LoopIdle /\ PeriodicIdle
    /\ variant \in SceneVariants
    /\ totalNodes = Len(TrackedNodes)
    /\ skillsLength \in 0..MaxSceneLabels
    /\ initialSkills = EmptyArray /\ shuffleI = 0
    \* the labels as the initialisation effect leaves them when its random
    \* draws keep the cyclic order
    /\ IF variant = "BuckyBall" \/ skillsLength > 0
       THEN /\ nodeSkills = [i \in 0..(totalNodes - 1) |->
                                CycleIndex(i, totalNodes, skillsLength)]
            /\ pcInit = "done"
       ELSE nodeSkills = EmptyArray /\ pcInit = "skipped"
    /\ rotation = <<0, 0, 0>>
    /\ rotationVelocity = IF variant = "BuckyBall" THEN BuckyBallTsxVelocity
                          ELSE InitialRotationVelocity
    /\ frameCount = 0
    /\ matrixWorld = RotationMatrix(<<0, 0, 0>>)
    /\ cameraTheta = 0
    /\ nodesToUpdate = <<>>
    /\ effectDue = TRUE
    /\ nodeOpacity = [n \in 0..(totalNodes - 1) |->
                         InitialOpacity(IF variant = "BuckyBall" THEN "htmlDot"
                                        ELSE "billboard")]
    /\ pcFrame = "idle"
    /\ velocityLog = <<>> /\ scanMatrix = <<>> /\ written = {}
    /\ \E all \in {AllVertices(variant)} : verticesVectors = TrackedVectors(all)

NextScene ==
    \/ OrbitControlsUpdate /\ UNCHANGED <<dedupVars, opacityVars, buildVars, loopVars, periodicVars>>
    \/ SkillNodeUseFrame /\ UNCHANGED <<dedupVars, opacityVars, buildVars, loopVars, periodicVars>>
    \/ BuckyballSceneUseFrame /\ UNCHANGED <<dedupVars, opacityVars, buildVars, loopVars, periodicVars>>
    \/ AILOGOSceneUseFrame /\ UNCHANGED <<dedupVars, opacityVars, buildVars, loopVars, periodicVars>>
    \/ BuckyBallTsxUseFrame /\ UNCHANGED <<dedupVars, opacityVars, buildVars, loopVars, periodicVars>>
    \/ Render /\ UNCHANGED <<dedupVars, opacityVars, buildVars, loopVars, periodicVars>>
    \/ SkillUpdateEffect /\ UNCHANGED <<dedupVars, opacityVars, buildVars, loopVars, periodicVars>>

SpecScene == InitScene /\ [][NextScene]_vars

\* the renderer runs after the frame callbacks of a frame, and React runs
\* the effects of a commit
SpecSceneFair ==
    /\ SpecScene
    /\ WF_<<pcFrame, effectDue, nodesToUpdate>>(
           Render /\ UNCHANGED <<dedupVars, opacityVars, buildVars, loopVars, periodicVars>>)
    /\ WF_<<pcFrame, effectDue, nodesToUpdate>>(
           SkillUpdateEffect /\ UNCHANGED <<dedupVars, opacityVars, buildVars, loopVars, periodicVars>>)

(***************************************************************************)
(* The depth scan under continued rotation, on all the vertices of the     *)
(* shape.  The scenes with a depth scan:                                   *)
(*   "part_003"          radius 10.5, worldPos.z < -(10.5 * 1.5)           *)
(*   "AILOGO"            torus 9 / 1.5, worldPos.z < -(9 * 1.5)            *)
(*   "part_002"          radius 8, worldPos.z < -30                        *)
(*   "AILOGO_zDepth"     AILOGO.tsx, third scene: radius 4, z < -10        *)
(*   "BuckyBall_sprite"  BuckyBall.tsx, third scene: radius 10.5, z < -50  *)
(* One step of the frame callback stands for the ten frames up to a        *)
(* scanning frame: the rotation they add up to is a step of the angle grid *)
(* on one axis, and the angles are kept modulo a full turn (the matrix of  *)
(* the rotation is the same).                                              *)
(***************************************************************************)
DepthScanVariants ==
    {"part_003", "AILOGO", "part_002", "AILOGO_zDepth", "BuckyBall_sprite"}

\* the depth below which a node is marked
skillSwapDepth(v) ==
    CASE v = "part_003" -> -FMul(BUCKYBALL_RADIUS, SKILL_SWAP_DEPTH_THRESHOLD_FACTOR)
      [] v = "AILOGO" -> -FMul(TORUS_RADIUS, SKILL_SWAP_DEPTH_THRESHOLD_FACTOR)
      [] v = "part_002" -> -30 * Scale
      [] v = "AILOGO_zDepth" -> -10 * Scale
      [] v = "BuckyBall_sprite" -> -50 * Scale

AngleSteps == 8
AngleStep == (2 * Pi) \div AngleSteps

\* an angle brought back into one turn
WrapAngle(a) == IF a >= AngleSteps * AngleStep THEN a - AngleSteps * AngleStep ELSE a

\* the rotation accumulated over the frames up to the scan: a grid step on
\* one axis
GridVelocity(axis) == [k \in 1..3 |-> IF k = axis THEN AngleStep ELSE 0]

\* the frame callback on a scanning frame: the rotation, then the scan with
\* the group's world matrix
DepthScanFrame ==
    /\ pcFrame = "idle"
    /\ \E axis \in 1..3 :
          rotation' = [k \in 1..3 |->
                          WrapAngle(ApplyRotation(rotation, GridVelocity(axis))[k])]
    /\ LET nodesToTriggerUpdate == DepthScan(matrixWorld, skillSwapDepth(variant))
       IN  /\ scanMatrix' = matrixWorld
           /\ IF Len(nodesToTriggerUpdate) > 0
              THEN nodesToUpdate' = nodesToTriggerUpdate /\ effectDue' = TRUE
              ELSE UNCHANGED <<nodesToUpdate, effectDue>>
    /\ pcFrame' = "render"
    /\ UNCHANGED <<rotationVelocity, frameCount, matrixWorld, cameraTheta,
                   nodeOpacity, velocityLog, written, verticesVectors, labelVars>>

InitScan ==
    /\ DedupIdle /\ OpacityIdle /\ BuildIdle /\ LoopIdle /\ PeriodicIdle
    /\ variant \in DepthScanVariants
    /\ \E all \in {AllVertices(variant)} :
          verticesVectors = all /\ totalNodes = Len(all)
    /\ skillsLength = 1
    /\ initialSkills = EmptyArray /\ shuffleI = 0
    /\ nodeSkills = [i \in 0..(totalNodes - 1) |-> 0] /\ pcInit = "done"
    /\ rotation = <<0, 0, 0>> /\ rotationVelocity = <<0, 0, 0>>
    /\ frameCount = 0
    /\ matrixWorld = RotationMatrix(<<0, 0, 0>>)
    /\ cameraTheta = 0 /\ nodesToUpdate = <<>> /\ effectDue = FALSE
    /\ nodeOpacity = EmptyArray /\ pcFrame = "idle"
    /\ velocityLog = <<>> /\ scanMatrix = <<>> /\ written = {}

NextScan ==
    \/ DepthScanFrame /\ UNCHANGED <<dedupVars, opacityVars, buildVars, loopVars, periodicVars>>
    \/ Render /\ UNCHANGED <<dedupVars, opacityVars, buildVars, loopVars, periodicVars>>

\* the animation loop keeps calling the frame callbacks and the renderer
SpecScan == InitScan /\ [][NextScan]_vars /\ WF_vars(NextScan)

(***************************************************************************)
(* The skill update effect on its own: the effect is run on a list of      *)
(* marked nodes (node indices in the order of the scan's forEach) and an   *)
(* assignment as the initialisation leaves it.                             *)
(***************************************************************************)
\* the increasing sequence of the elements of a set of node indices
RECURSIVE SortedSeq(_)
SortedSeq(S) ==
    IF S = {} THEN <<>>
    ELSE LET m == CHOOSE x \in S : \A y \in S : y <= x
         IN  Append(SortedSeq(S \ {m}), m)

\* the assignments the initialisation can have left
InitialAssignments ==
    IF skillsLength >= 1
    THEN [0..(totalNodes - 1) -> 0..(skillsLength - 1)]
    ELSE IF variant = "BuckyBall"
    THEN {[i \in 0..(totalNodes - 1) |-> CycleIndex(i, totalNodes, skillsLength)]}
    ELSE {EmptyArray}

InitUpdate ==
    /\ DedupIdle /\ OpacityIdle /\ BuildIdle /\ LoopIdle /\ PeriodicIdle
    /\ variant \in SceneVariants
    /\ totalNodes \in 1..MaxNodes
    /\ skillsLength \in 0..MaxLabels
    /\ initialSkills = EmptyArray /\ shuffleI = 0
    /\ nodeSkills \in InitialAssignments
    /\ pcInit = IF nodeSkills = EmptyArray THEN "skipped" ELSE "done"
    /\ rotation = <<0, 0, 0>> /\ rotationVelocity = <<0, 0, 0>>
    /\ frameCount = 0 /\ matrixWorld = <<>> /\ cameraTheta = 0
    /\ nodesToUpdate \in {SortedSeq(S) : S \in SUBSET (0..(totalNodes - 1))}
    /\ effectDue = TRUE
    /\ nodeOpacity = EmptyArray /\ pcFrame = "idle"
    /\ velocityLog = <<>> /\ scanMatrix = <<>> /\ written = {}
    /\ verticesVectors = <<>>

NextUpdate ==
    SkillUpdateEffect /\ UNCHANGED <<dedupVars, opacityVars, buildVars, loopVars, periodicVars>>

SpecUpdate == InitUpdate /\ [][NextUpdate]_vars

(***************************************************************************)
(* The skill update effect on a list that holds node indices past the last *)
(* node (the scans only push indices of verticesVectors; the effect itself *)
(* reads whatever nodesToUpdate holds).                                    *)
(***************************************************************************)
\* array.length: one more than the largest index written
length(a) == IF DOMAIN a = {} THEN 0
             ELSE (CHOOSE x \in DOMAIN a : \A y \in DOMAIN a : y <= x) + 1

\* the indices of the array that hold no value
Holes(a) == (0..(length(a) - 1)) \ DOMAIN a

\* the node indices a request holds past the last node
OutOfRange == {n \in Range(nodesToUpdate) : n < 0 \/ n >= totalNodes}

\* the indices the effect passes to console.warn: the else branch of the
\* bounds check of AILOGO.tsx; the other effects have no such branch
ConsoleWarnings ==
    IF variant = "AILOGO" /\ UpdateGuard
    THEN {n \in Range(nodesToUpdate) :
            ~(n >= 0 /\ n < ArrayLength(nodeSkills))}
    ELSE {}

InitRequest ==
    /\ DedupIdle /\ OpacityIdle /\ BuildIdle /\ LoopIdle /\ PeriodicIdle
    /\ variant \in SceneVariants
    /\ totalNodes \in 1..MaxNodes
    /\ skillsLength \in 0..MaxLabels
    /\ initialSkills = EmptyArray /\ shuffleI = 0
    /\ nodeSkills \in InitialAssignments
    /\ pcInit = IF nodeSkills = EmptyArray THEN "skipped" ELSE "done"
    /\ rotation = <<0, 0, 0>> /\ rotationVelocity = <<0, 0, 0>>
    /\ frameCount = 0 /\ matrixWorld = <<>> /\ cameraTheta = 0
    /\ nodesToUpdate \in {SortedSeq(S) : S \in SUBSET (0..(totalNodes + 1))}
    /\ effectDue = TRUE
    /\ nodeOpacity = EmptyArray /\ pcFrame = "idle"
    /\ velocityLog = <<>> /\ scanMatrix = <<>> /\ written = {}
    /\ verticesVectors = <<>>

SpecRequest == InitRequest /\ [][NextUpdate]_vars

(***************************************************************************)
(* The random walk of the velocity over several perturbations: the frame   *)
(* callbacks of the sprite scenes (part_003, BuckyBall.tsx third scene),    *)
(* each followed by the render.  The three draws of one perturbation are    *)
(* taken equal.                                                             *)
(***************************************************************************)
MaxWalkSteps == 6

WalkVariants == {"part_003", "BuckyBall_sprite"}

\* the draws of Math.random() of one perturbation
WalkDraws == {<<r, r, r>> : r \in RandomSamples}

\* the frame callback: rotation, random walk every 60 frames, frame counter,
\* depth scan every 10 frames
WalkUseFrame ==
    /\ pcFrame = "idle" /\ frameCount < 60 * MaxWalkSteps
    /\ rotation' = ApplyRotation(rotation, rotationVelocity)
    /\ velocityLog' = Append(velocityLog, rotationVelocity)
    /\ IF frameCount % 60 = 0
       THEN \E d \in WalkDraws :
               rotationVelocity' = RandomWalk(rotationVelocity, d[1], d[2], d[3])
       ELSE UNCHANGED rotationVelocity
    /\ frameCount' = frameCount + 1
    /\ IF frameCount % 10 = 0
       THEN LET nodesToTriggerUpdate ==
                    DepthScan(matrixWorld, skillSwapDepth(variant))
            IN  /\ scanMatrix' = matrixWorld
                /\ IF Len(nodesToTriggerUpdate) > 0
                   THEN nodesToUpdate' = nodesToTriggerUpdate /\ effectDue' = TRUE
                   ELSE UNCHANGED <<nodesToUpdate, effectDue>>
       ELSE scanMatrix' = <<>> /\ UNCHANGED <<nodesToUpdate, effectDue>>
    /\ written' = {}
    /\ pcFrame' = "render"
    /\ UNCHANGED <<matrixWorld, cameraTheta, nodeOpacity, verticesVectors,
                   labelVars>>

InitWalk ==
    /\ DedupIdle /\ OpacityIdle /\ BuildIdle /\ LoopIdle /\ PeriodicIdle
    /\ variant \in WalkVariants
    /\ \E all \in {AllVertices(variant)} :
          verticesVectors = TrackedVectors(all)
    /\ totalNodes = Len(TrackedNodes) /\ skillsLength = 1
    /\ initialSkills = EmptyArray /\ shuffleI = 0
    /\ nodeSkills = [i \in 0..(totalNodes - 1) |-> 0] /\ pcInit = "done"
    /\ rotation = <<0, 0, 0>> /\ rotationVelocity = InitialRotationVelocity
    /\ frameCount = 0
    /\ matrixWorld = RotationMatrix(<<0, 0, 0>>)
    /\ cameraTheta = 0 /\ nodesToUpdate = <<>> /\ effectDue = FALSE
    /\ nodeOpacity = EmptyArray /\ pcFrame = "idle"
    /\ velocityLog = <<>> /\ scanMatrix = <<>> /\ written = {}

NextWalk ==
    \/ WalkUseFrame /\ UNCHANGED <<dedupVars, opacityVars, buildVars, loopVars, periodicVars>>
    \/ Render /\ UNCHANGED <<dedupVars, opacityVars, buildVars, loopVars, periodicVars>>

SpecWalk == InitWalk /\ [][NextWalk]_vars

(***************************************************************************)
(* The frame counter.  The frame callback reads frameCount from the render  *)
(* that created it and passes an updater to setFrameCount; a render applies *)
(* the queued updaters to the state and registers a callback that closes    *)
(* over the new value.  Frame callbacks (the animation-frame loop) and      *)
(* renders (scheduled by React) interleave freely.                          *)
(***************************************************************************)
MaxCallbacks == 12

FrameVariants == {"part_003", "BuckyBall"}

\* the updater passed to setFrameCount, applied to prev
FrameCountUpdater(v, prev) ==
    IF v = "BuckyBall" THEN (prev + 1) % 10 ELSE prev + 1

\* the queued updaters applied in order
RECURSIVE ApplyQueued(_, _, _)
ApplyQueued(v, prev, n) ==
    IF n = 0 THEN prev ELSE ApplyQueued(v, FrameCountUpdater(v, prev), n - 1)

\* the frame callback: reads the frameCount of its closure and queues an
\* increment
FrameCallback ==
    /\ callbacksRun < MaxCallbacks
    /\ countLog' = Append(countLog, closureFrameCount)
    /\ queuedUpdates' = queuedUpdates + 1
    /\ callbacksRun' = callbacksRun + 1
    /\ UNCHANGED <<closureFrameCount, frameCount>>

\* a render of the scene and its commit: the state is the queued updaters
\* applied, and the callback of this render replaces the registered one
RenderCommit ==
    /\ queuedUpdates > 0
    /\ frameCount' = ApplyQueued(variant, frameCount, queuedUpdates)
    /\ closureFrameCount' = frameCount'
    /\ queuedUpdates' = 0
    /\ UNCHANGED <<callbacksRun, countLog>>

SceneRest ==
    <<rotation, rotationVelocity, matrixWorld, cameraTheta, nodesToUpdate,
      effectDue, nodeOpacity, pcFrame, velocityLog, scanMatrix, written,
      verticesVectors>>

InitFrames ==
    /\ DedupIdle /\ OpacityIdle /\ BuildIdle /\ SceneIdle /\ LoopIdle /\ PeriodicIdle
    /\ variant \in FrameVariants
    /\ totalNodes = 0 /\ skillsLength = 0
    /\ initialSkills = EmptyArray /\ shuffleI = 0
    /\ nodeSkills = EmptyArray /\ pcInit = "idle"

NextFrames ==
    \/ FrameCallback /\ UNCHANGED <<dedupVars, labelVars, opacityVars,
                                    SceneRest, buildVars, periodicVars>>
    \/ RenderCommit /\ UNCHANGED <<dedupVars, labelVars, opacityVars,
                                   SceneRest, buildVars, periodicVars>>

SpecFrames == InitFrames /\ [][NextFrames]_vars

(***************************************************************************)
(* The scene that labels a random subset of the nodes of the icosahedron   *)
(* and refreshes it every 2 seconds (BuckyBall.tsx, second scene).  A call *)
(* of updateVisibleNodes runs to its end before anything else happens; one *)
(* pass of its loop is one step.                                           *)
(***************************************************************************)
MaxPeriodicFrames == 2
MaxTimers == 3
MaxRejected == 2

\* the lengths of the skills prop
PeriodicLabelCounts == {0, 2, 10, 11}

\* vertices.current: the twelve vertices buckyballVertices() returns
buckyballVertices ==
    LET pass(vs, k) == IcosahedronPush(vs, LoopI(k), LoopJ(k))
    IN  IcosahedronMap(pass(pass(pass(pass(<<>>, 1), 2), 3), 4),
                       IcosahedronRadius)

\* the values Math.floor(Math.random() * totalNodes) is drawn from: the
\* first, the middle or the last node for the first draw, then the lowest
\* node not yet chosen or the first chosen node again
RandomNodeIndices(chosen) ==
    LET fresh == (0..(totalNodes - 1)) \ Range(chosen)
    IN  IF chosen = <<>> THEN {0, totalNodes \div 2, totalNodes - 1}
        ELSE {chosen[1]} \cup
             (IF fresh = {} THEN {}
              ELSE {CHOOSE n \in fresh : \A o \in fresh : n <= o})

\* clearInterval(id)
clearInterval(ts, id) == [t \in DOMAIN ts \ {id} |-> ts[t]]

\* (mutant) the body of updateVisibleNodes up to its loop, asking for one
\* node more
updateVisibleNodes_OneMore(skillsDotLength, caller) ==
    /\ numVisibleNodes' = Min(10, skillsDotLength) + 1
    /\ newVisibleNodes' = <<>>
    /\ pcRefresh' = "loop" /\ refreshBy' = caller /\ rejected' = 0

\* (mutant) the body of updateVisibleNodes up to its loop, asking for twice
\* the number of labels without the cap of 10
updateVisibleNodes_Uncapped(skillsDotLength, caller) ==
    /\ numVisibleNodes' = 2 * skillsDotLength
    /\ newVisibleNodes' = <<>>
    /\ pcRefresh' = "loop" /\ refreshBy' = caller /\ rejected' = 0

\* the body of updateVisibleNodes up to its loop
updateVisibleNodes(skillsDotLength, caller) ==
    /\ numVisibleNodes' = Min(10, skillsDotLength)
    /\ newVisibleNodes' = <<>>
    /\ pcRefresh' = "loop" /\ refreshBy' = caller /\ rejected' = 0

\* (mutant) the effect without its cleanup function
SkillsEffect_NoCleanup ==
    /\ mounted /\ effectDue /\ pcRefresh = "idle"
    /\ updateVisibleNodes(skillsLength, "effect")
    /\ effectDue' = FALSE
    /\ UNCHANGED <<mounted, timers, timerCount, interval, visibleNodes, opacityDue,
                   skillsLength, rotation, cameraPos, nodeOpacity>>

\* useEffect(..., [skills]) on mount and after a change of skills: the
\* cleanup of the previous run, then updateVisibleNodes()
SkillsEffect ==
    /\ mounted /\ effectDue /\ pcRefresh = "idle"
    /\ timers' = clearInterval(timers, interval)
    /\ updateVisibleNodes(skillsLength, "effect")
    /\ effectDue' = FALSE
    /\ UNCHANGED <<mounted, timerCount, interval, visibleNodes, opacityDue,
                   skillsLength, rotation, cameraPos, nodeOpacity>>

\* an interval fires and calls the updateVisibleNodes of its closure
TimerTick ==
    /\ pcRefresh = "idle"
    /\ \E id \in DOMAIN timers : updateVisibleNodes(timers[id], "timer")
    /\ UNCHANGED <<mounted, timers, timerCount, interval, visibleNodes,
                   opacityDue, effectDue, skillsLength, rotation, cameraPos,
                   nodeOpacity>>

\* (mutant) one pass of the while loop without the includes test
SelectLoop_NoIncludesTest ==
    /\ pcRefresh = "loop" /\ Len(newVisibleNodes) < numVisibleNodes
    /\ \E randomIndex \in RandomNodeIndices(newVisibleNodes) :
          newVisibleNodes' = Append(newVisibleNodes, randomIndex)
    /\ UNCHANGED <<mounted, timers, timerCount, interval, visibleNodes,
                   pcRefresh, numVisibleNodes, refreshBy, opacityDue,
                   effectDue, skillsLength, rotation, cameraPos, nodeOpacity,
                   rejected>>

\* one pass of the while loop
SelectLoop ==
    /\ pcRefresh = "loop" /\ Len(newVisibleNodes) < numVisibleNodes
    /\ \E randomIndex \in RandomNodeIndices(newVisibleNodes) :
          IF randomIndex \notin Range(newVisibleNodes)
          THEN /\ newVisibleNodes' = Append(newVisibleNodes, randomIndex)
               /\ UNCHANGED rejected
          ELSE /\ rejected' = Min(rejected + 1, MaxRejected)
               /\ UNCHANGED newVisibleNodes
    /\ UNCHANGED <<mounted, timers, timerCount, interval, visibleNodes,
                   pcRefresh, numVisibleNodes, refreshBy, opacityDue,
                   effectDue, skillsLength, rotation, cameraPos, nodeOpacity>>

\* the loop is left: setVisibleNodes(newVisibleNodes), and in the effect
\* setInterval(updateVisibleNodes, 2000)
SelectReturn ==
    /\ pcRefresh = "loop" /\ Len(newVisibleNodes) >= numVisibleNodes
    /\ visibleNodes' = newVisibleNodes
    /\ opacityDue' = mounted
    /\ IF refreshBy = "effect"
       THEN /\ timerCount' = timerCount + 1
            /\ timers' = timers @@ (timerCount' :> skillsLength)
            /\ interval' = timerCount'
       ELSE UNCHANGED <<timers, timerCount, interval>>
    /\ pcRefresh' = "idle" /\ newVisibleNodes' = <<>>
    /\ numVisibleNodes' = 0 /\ refreshBy' = "none" /\ rejected' = 0
    /\ UNCHANGED <<mounted, effectDue, skillsLength, rotation, cameraPos,
                   nodeOpacity>>

\* the effects of the SkillNodes after a commit that changed visible or
\* cameraPosition
PeriodicSkillNodeEffect ==
    /\ mounted /\ opacityDue /\ pcRefresh = "idle"
    /\ nodeOpacity' =
         [i \in 0..(totalNodes - 1) |->
             IF i \in Range(visibleNodes)
             THEN EffectDotOpacity(NodeVector(i), cameraPos)
             ELSE 0]
    /\ opacityDue' = FALSE
    /\ UNCHANGED <<mounted, timers, timerCount, interval, visibleNodes,
                   newVisibleNodes, pcRefresh, numVisibleNodes, refreshBy,
                   rejected, effectDue, skillsLength, rotation, cameraPos>>

\* the frame callback: rotation, setCameraPos(state.camera.position)
PeriodicUseFrame ==
    /\ mounted /\ pcRefresh = "idle"
    /\ rotation[2] < MaxPeriodicFrames * Dec(2, 1000)
    /\ rotation' = <<rotation[1] + Dec(5, 10000), rotation[2] + Dec(2, 1000),
                     rotation[3]>>
    /\ cameraPos' = <<0, 0, 7 * Scale>>
    /\ opacityDue' = (opacityDue \/ cameraPos' # cameraPos)
    /\ UNCHANGED <<mounted, timers, timerCount, interval, visibleNodes,
                   newVisibleNodes, pcRefresh, numVisibleNodes, refreshBy,
                   rejected, effectDue, skillsLength, nodeOpacity>>

\* the parent renders the scene with another skills array
SkillsPropChange ==
    /\ mounted /\ pcRefresh = "idle" /\ ~effectDue /\ timerCount < MaxTimers
    /\ skillsLength' \in PeriodicLabelCounts \ {skillsLength}
    /\ effectDue' = TRUE
    /\ UNCHANGED <<mounted, timers, timerCount, interval, visibleNodes,
                   newVisibleNodes, pcRefresh, numVisibleNodes, refreshBy,
                   rejected, opacityDue, rotation, cameraPos, nodeOpacity>>

\* the scene unmounts: the cleanup of the last effect run
Unmount ==
    /\ mounted /\ pcRefresh = "idle"
    /\ mounted' = FALSE
    /\ timers' = clearInterval(timers, interval)
    /\ effectDue' = FALSE /\ opacityDue' = FALSE
    /\ UNCHANGED <<timerCount, interval, visibleNodes, newVisibleNodes,
                   pcRefresh, numVisibleNodes, refreshBy, rejected,
                   skillsLength, rotation, cameraPos, nodeOpacity>>

\* the render of node i: visible, skillIndex and text ("" as <<"empty">>,
\* skills[k] as <<"skill", k>>); an invisible SkillNode returns null
visibleAt(i) == i \in Range(visibleNodes)

indexOf(list, x) ==
    IF x \in Range(list)
    THEN CHOOSE k \in 0..(Len(list) - 1) :
            list[k + 1] = x /\ \A j \in 1..k : list[j] # x
    ELSE -1

periodicText(i) ==
    LET listIndex == indexOf(visibleNodes, i)
    IN  IF visibleAt(i) /\ listIndex < skillsLength
        THEN <<"skill", listIndex>> ELSE <<"empty">>

PeriodicRest ==
    <<dedupVars, buildVars, loopVars, variant, totalNodes, initialSkills,
      shuffleI, nodeSkills, pcInit, visible, labelPos, cameraForward,
      parentFound, opacity, pcOpacity, rotationVelocity, frameCount,
      matrixWorld, cameraTheta, nodesToUpdate, pcFrame, velocityLog,
      scanMatrix, written, verticesVectors>>

InitPeriodic ==
    /\ DedupIdle /\ BuildIdle /\ LoopIdle
    /\ variant = "BuckyBall_periodic"
    /\ \E vs \in {buckyballVertices} :
          verticesVectors = vs /\ totalNodes = Len(vs)
    /\ skillsLength \in PeriodicLabelCounts
    /\ initialSkills = EmptyArray /\ shuffleI = 0
    /\ nodeSkills = EmptyArray /\ pcInit = "idle"
    /\ visible = FALSE /\ labelPos = <<0, 0, 0>>
    /\ cameraPos = <<0, 0, 5 * Scale>>
    /\ cameraForward = <<0, 0, 0>> /\ parentFound = FALSE /\ opacity = 0
    /\ pcOpacity = "idle"
    /\ rotation = <<0, 0, 0>> /\ rotationVelocity = <<0, 0, 0>>
    /\ frameCount = 0 /\ matrixWorld = <<>> /\ cameraTheta = 0
    /\ nodesToUpdate = <<>> /\ effectDue = TRUE
    /\ nodeOpacity = [i \in 0..(totalNodes - 1) |-> 0]
    /\ pcFrame = "none" /\ velocityLog = <<>> /\ scanMatrix = <<>>
    /\ written = {}
    /\ mounted = TRUE /\ timers = <<>> /\ timerCount = 0 /\ interval = 0
    /\ visibleNodes = <<>> /\ newVisibleNodes = <<>> /\ pcRefresh = "idle"
    /\ numVisibleNodes = 0 /\ refreshBy = "none" /\ rejected = 0
    /\ opacityDue = TRUE

NextPeriodic ==
    \/ SkillsEffect /\ UNCHANGED PeriodicRest
    \/ TimerTick /\ UNCHANGED PeriodicRest
    \/ SelectLoop /\ UNCHANGED PeriodicRest
    \/ SelectReturn /\ UNCHANGED PeriodicRest
    \/ PeriodicSkillNodeEffect /\ UNCHANGED PeriodicRest
    \/ PeriodicUseFrame /\ UNCHANGED PeriodicRest
    \/ SkillsPropChange /\ UNCHANGED PeriodicRest
    \/ Unmount /\ UNCHANGED PeriodicRest

SpecPeriodic == InitPeriodic /\ [][NextPeriodic]_vars

\* a pass of the loop whose draw is an index not yet in the list
SelectFresh == SelectLoop /\ newVisibleNodes' # newVisibleNodes

\* fair draws: while an index outside the list exists, Math.random() does
\* not avoid all of them forever; the loop's exit is taken when its test fails
SpecPeriodicFair ==
    /\ SpecPeriodic
    /\ WF_vars(SelectFresh /\ UNCHANGED PeriodicRest)
    /\ WF_vars(SelectReturn /\ UNCHANGED PeriodicRest)

(***************************************************************************)
(* The icosahedron scene of AILOGO.tsx (second scene, "AILOGO_icosahedron"):*)
(* camera at [0, 0, 9], OrbitControls with autoRotate and no distance      *)
(* limits, 12 nodes of radius 2.  The frame callback scans the local       *)
(* positions of the nodes against state.camera.position, and calls         *)
(* normalize() on that vector itself.                                      *)
(*     cameraPos     state.camera.position                                 *)
(*     cameraTheta   the azimuth OrbitControls has turned the camera to    *)
(***************************************************************************)
MaxCameraFrames == 24

IcosahedronAutoRotateSpeed == Dec(5, 10)
IcosahedronAutoRotationAngle ==
    FMul((2 * Pi) \div 3600, IcosahedronAutoRotateSpeed)

\* controls.update() with autoRotate: the offset of the camera from the
\* target keeps its radius (minDistance 0, maxDistance Infinity) and turns
\* about the y axis
IcosahedronOrbitControlsUpdate ==
    /\ variant = "AILOGO_icosahedron"
    /\ pcFrame = "idle" /\ ~effectDue
    /\ -cameraTheta < MaxCameraFrames * IcosahedronAutoRotationAngle
    /\ cameraTheta' = cameraTheta - IcosahedronAutoRotationAngle
    /\ LET r == Length(cameraPos)
       IN  cameraPos' = <<FMul(r, Sin(cameraTheta')), 0,
                          FMul(r, Cos(cameraTheta'))>>
    /\ pcFrame' = "scene"
    /\ UNCHANGED <<rotation, rotationVelocity, frameCount, matrixWorld,
                   nodesToUpdate, effectDue, nodeOpacity, velocityLog,
                   scanMatrix, written, verticesVectors, labelVars>>

\* vertices.current.forEach from node k on: the distance is taken from the
\* camera position as it is, then state.camera.position.normalize() sets the
\* camera position to unit length and returns it.  The result is the list of
\* marked nodes and the camera position after the loop.
RECURSIVE IcosahedronScan(_, _, _)
IcosahedronScan(k, cam, marked) ==
    IF k > Len(verticesVectors) THEN <<marked, cam>>
    ELSE LET positionVector == verticesVectors[k]
             distance == Length(VSub(positionVector, cam))
             normalized == Normalize(cam)
             dotProduct == Dot(Normalize(positionVector), normalized)
         IN  IcosahedronScan(k + 1, normalized,
                             IF dotProduct < -Dec(5, 10) /\ distance > 6 * Scale
                             THEN Append(marked, k - 1) ELSE marked)

\* the frame callback of the icosahedron scene of AILOGO.tsx
IcosahedronSceneUseFrame ==
    /\ variant = "AILOGO_icosahedron" /\ pcFrame = "scene"
    /\ rotation' = <<rotation[1] + Dec(5, 10000), rotation[2] + Dec(2, 1000),
                     rotation[3]>>
    /\ frameCount' = (frameCount + 1) % 10
    /\ IF frameCount = 0
       THEN LET scan == IcosahedronScan(1, cameraPos, <<>>)
            IN  /\ cameraPos' = scan[2]
                /\ IF Len(scan[1]) > 0
                   THEN nodesToUpdate' = scan[1] /\ effectDue' = TRUE
                   ELSE UNCHANGED <<nodesToUpdate, effectDue>>
       ELSE UNCHANGED <<cameraPos, nodesToUpdate, effectDue>>
    /\ written' = {}
    /\ pcFrame' = "render"
    /\ UNCHANGED <<rotationVelocity, matrixWorld, cameraTheta, nodeOpacity,
                   velocityLog, scanMatrix, verticesVectors, labelVars>>

CameraRest == <<dedupVars, buildVars, loopVars, periodicVars, visible,
                labelPos, cameraForward, parentFound, opacity, pcOpacity>>

InitCamera ==
    /\ DedupIdle /\ BuildIdle /\ LoopIdle /\ PeriodicIdle
    /\ variant = "AILOGO_icosahedron"
    /\ \E vs \in {buckyballVertices} :
          verticesVectors = vs /\ totalNodes = Len(vs)
    /\ skillsLength \in 1..MaxSceneLabels
    /\ initialSkills = EmptyArray /\ shuffleI = 0
    /\ nodeSkills = [i \in 0..(totalNodes - 1) |->
                        CycleIndex(i, totalNodes, skillsLength)]
    /\ pcInit = "done"
    /\ visible = FALSE /\ labelPos = <<0, 0, 0>>
    /\ cameraPos = <<0, 0, 9 * Scale>>
    /\ cameraForward = <<0, 0, 0>> /\ parentFound = FALSE /\ opacity = 0
    /\ pcOpacity = "idle"
    /\ rotation = <<0, 0, 0>> /\ rotationVelocity = <<0, 0, 0>>
    /\ frameCount = 0 /\ matrixWorld = RotationMatrix(<<0, 0, 0>>)
    /\ cameraTheta = 0
    /\ nodesToUpdate = <<>> /\ effectDue = TRUE
    /\ nodeOpacity = [i \in 0..(totalNodes - 1) |-> 0]
    /\ pcFrame = "idle" /\ velocityLog = <<>> /\ scanMatrix = <<>>
    /\ written = {}

NextCamera ==
    \/ IcosahedronOrbitControlsUpdate /\ UNCHANGED CameraRest
    \/ IcosahedronSceneUseFrame /\ UNCHANGED CameraRest
    \/ Render /\ UNCHANGED <<dedupVars, opacityVars, buildVars, loopVars, periodicVars>>
    \/ SkillUpdateEffect /\ UNCHANGED <<dedupVars, opacityVars, buildVars, loopVars, periodicVars>>

SpecCamera == InitCamera /\ [][NextCamera]_vars

(***************************************************************************)
(* The build: vite writes the bundle to dist and then calls the            *)
(* closeBundle hook of every plugin; test-build.js runs the build and      *)
(* looks for the special files in dist.                                    *)
(***************************************************************************)
SpecialFiles == {".nojekyll", "CNAME"}
BundleFiles == {"index.html"}
\* files the root may hold besides index.html and the special files
OtherRootFiles == {"README.md"}
Modes == {"development", "production"}

\* plugins: [react(), mode === 'development' && componentTagger(),
\* copySpecialFiles()].filter(Boolean)
plugins(m) ==
    SelectSeq(<<"react", IF m = "development" THEN "componentTagger" ELSE "false",
                "copySpecialFiles">>,
              LAMBDA pl : pl # "false")

\* fs.copyFileSync(f, 'dist/' + f): <<dist afterwards, an error was thrown>>
copyFileSync(root, dist, f) ==
    IF f \in root THEN <<dist \cup {f}, FALSE>> ELSE <<dist, TRUE>>

\* (mutant) the copy without the existsSync guard
CopyIfExists_Unguarded(root, dist, f) == copyFileSync(root, dist, f)

\* if (fs.existsSync(f)) fs.copyFileSync(f, 'dist/' + f)
CopyIfExists(root, dist, f) ==
    IF f \in root THEN copyFileSync(root, dist, f) ELSE <<dist, FALSE>>

\* the body of closeBundle: the second statement runs unless the first threw
copySpecialFiles(root, dist) ==
    LET first == CopyIfExists(root, dist, ".nojekyll")
    IN  IF first[2] THEN first ELSE CopyIfExists(root, first[1], "CNAME")

\* vite calls the closeBundle hooks after the bundle is written
closeBundle ==
    /\ pcBuild = "bundled"
    /\ \E k \in 1..Len(plugins(mode)) : plugins(mode)[k] = "copySpecialFiles"
    /\ distDir' = copySpecialFiles(rootDir, distDir)[1]
    /\ buildThrew' = copySpecialFiles(rootDir, distDir)[2]
    /\ pcBuild' = "closed"
    /\ UNCHANGED <<mode, rootDir, distAtBundle, distFiles, logged>>

\* test-build.js after execSync('npm run build') has returned: readdirSync
\* and the two checks
TestBuild ==
    /\ pcBuild = "closed" /\ ~buildThrew
    /\ distFiles' = distDir
    /\ logged' = {<<f, IF f \in distDir THEN "copied" ELSE "missing">> :
                     f \in SpecialFiles}
    /\ pcBuild' = "checked"
    /\ UNCHANGED <<mode, rootDir, distDir, distAtBundle, buildThrew>>

\* the bundle has been written: dist holds the bundle and whatever else the
\* build has put there
InitBuild ==
    /\ DedupIdle /\ LabelIdle /\ OpacityIdle /\ SceneIdle /\ LoopIdle /\ PeriodicIdle
    /\ mode \in Modes
    /\ rootDir \in {BundleFiles \cup sp :
                        sp \in SUBSET (SpecialFiles \cup OtherRootFiles)}
    /\ distDir \in {BundleFiles \cup sp : sp \in SUBSET SpecialFiles}
    /\ distAtBundle = distDir
    /\ buildThrew = FALSE /\ distFiles = {} /\ logged = {}
    /\ pcBuild = "bundled"

NextBuild ==
    \/ closeBundle /\ UNCHANGED <<dedupVars, labelVars, opacityVars, sceneVars,
                                 loopVars, periodicVars>>
    \/ TestBuild /\ UNCHANGED <<dedupVars, labelVars, opacityVars, sceneVars,
                               loopVars, periodicVars>>

SpecBuild == InitBuild /\ [][NextBuild]_vars

(***************************************************************************)
(* Properties of the vertex generator and the de-duplicators (SpecGeom).   *)
(***************************************************************************)
Returned == pcDedup = "returned"

PairsOf(seq) == {pr \in (1..Len(seq)) \X (1..Len(seq)) : pr[1] < pr[2]}

\* C3 (as claimed): for every radius > 0 getC60Vertices returns exactly 60
\* vertices.
C3_Exactly60 ==
    (Returned /\ filter = "roundedKey") => Len(finalVertices) = 60

Duplicates(a, b) ==
    IF filter = "roundedKey" THEN VertexKey(a) = VertexKey(b)
    ELSE distanceTo(a, b) < VERTEX_PROXIMITY_THRESHOLD

\* the positions of the input whose vertex has no duplicate before it
FirstSeen == {j \in 1..Len(input) :
                 \A i \in 1..(j - 1) : ~Duplicates(input[i], input[j])}

\* the k-th smallest element of a set of positions
KthOf(S, k) == CHOOSE j \in S : Cardinality({i \in S : i <= j}) = k

\* C9: the output of a de-duplicator is the input's vertices that are the
\* first of their duplicate class, in the input's order.
C9_FirstSeenOrder ==
    (Returned /\ filter \in {"roundedKey", "proximity"}) =>
        \E fs \in {FirstSeen} :
            /\ Len(finalVertices) = Cardinality(fs)
            /\ \A k \in 1..Len(finalVertices) :
                   finalVertices[k] = input[KthOf(fs, k)]

\* the rounded-key filter has returned after dropping duplicates whose
\* coordinates differ from those of the vertex kept for their key
C9_Witness ==
    /\ Returned /\ filter = "roundedKey"
    /\ \E fs \in {FirstSeen} : \E j \in (1..Len(input)) \ fs :
          \A k \in 1..Len(finalVertices) : finalVertices[k] # input[j]

\* the squared norm of a raw vertex, in Z[phi] (phi * phi = phi + 1)
SquareZPhi(c) == <<c[1] * c[1] + c[2] * c[2], 2 * c[1] * c[2] + c[2] * c[2]>>
NormSqZPhi(v) ==
    <<SquareZPhi(v[1])[1] + SquareZPhi(v[2])[1] + SquareZPhi(v[3])[1],
      SquareZPhi(v[1])[2] + SquareZPhi(v[2])[2] + SquareZPhi(v[3])[2]>>

\* the tolerance of a computed length: 1e-3
LengthTolerance == Scale \div 1000

\* C10: every raw C60 vertex has squared norm 10 + 9 phi, and every scaled
\* vertex lies at distance radius from the origin (to the tolerance).
C10_Circumradius ==
    filter = "roundedKey" =>
        \A n \in 1..(idx - 1) :
            /\ NormSqZPhi(preciseCoords[n]) = <<10, 9>>
            /\ Abs(Length(input[n]) - radius) <= LengthTolerance

\* getC60Vertices(1) has returned: its first vertex is the scaled (0, 1, 3 phi)
C10_Witness ==
    /\ Returned /\ filter = "roundedKey" /\ radius = Scale
    /\ preciseCoords[1] = << <<0, 0>>, <<1, 0>>, <<0, 3>> >>
    /\ finalVertices[1] = input[1]
    /\ Len(finalVertices) = 60

\* the largest distance from the origin among the vertices of vs
MaxDistance(vs) ==
    CHOOSE m \in {Length(vs[n]) : n \in 1..Len(vs)} :
        \A n \in 1..Len(vs) : Length(vs[n]) <= m

\* C11 (as claimed): for each generated shape (C60, icosahedron, torus) the
\* largest distance from the origin to a vertex of the shape equals the
\* requested radius of the shape (to 1e-3).
C11_MaxDistanceIsRadius ==
    Returned => Abs(MaxDistance(finalVertices) - radius) <= LengthTolerance

\* C11 (amended): the largest distance from the origin equals the requested
\* radius for the C60 and for the icosahedron; for the torus it equals the
\* ring radius plus the tube radius.
C11_MaxDistanceAmended ==
    Returned =>
        Abs(MaxDistance(finalVertices)
              - (IF filter = "proximity" THEN radius + TORUS_TUBE_RADIUS
                 ELSE radius)) <= LengthTolerance

\* buckyballVertices has returned its twelve vertices, the first of them
\* the scaled (0, -1, -phi)
C11_Witness ==
    /\ Returned /\ filter = "icosahedron" /\ Len(finalVertices) = 12
    /\ input[1] = <<0, -Scale, -phi>>
    /\ finalVertices[1][1] = 0 /\ finalVertices[1][3] < -Scale

(***************************************************************************)
(* Properties of the label initialisation (SpecLabels).                    *)
(***************************************************************************)
\* C1: after the initialisation with N nodes and M >= 1 labels, nodeSkills has
\* exactly N entries, each an index in 0 .. M-1, in every variant.
C1_InitCoverage ==
    (pcInit = "done" /\ skillsLength >= 1) =>
        /\ DOMAIN nodeSkills = 0..(totalNodes - 1)
        /\ \A n \in DOMAIN nodeSkills : nodeSkills[n] \in 0..(skillsLength - 1)

\* an initialisation with more nodes than labels has completed
C1_Witness ==
    /\ pcInit = "done" /\ skillsLength >= 2 /\ totalNodes > skillsLength
    /\ ArrayLength(nodeSkills) = totalNodes

\* how often label l occurs in array a
CountOf(a, l) == Cardinality({n \in DOMAIN a : a[n] = l})

\* array a has the histogram of [i mod M : i in 0 .. N-1]
CycleHistogram(a) ==
    /\ DOMAIN a = 0..(totalNodes - 1)
    /\ \A l \in 0..(skillsLength - 1) :
          CountOf(a, l) = Cardinality({i \in 0..(totalNodes - 1) :
                                          i % skillsLength = l})

C13_EmptyCatalogSkipped ==
    (skillsLength = 0 /\ pcInit \in {"done", "skipped"}) =>
        /\ ArrayLength(nodeSkills) = 0
        /\ \A i \in 0..(totalNodes - 1) :
               text(i)[1] \in {"undefined", "unmounted"}

(***************************************************************************)
(* Properties of the visibility model (SpecOpacity).                       *)
(***************************************************************************)
\* C4: whatever the label position, the camera position and the camera's
\* forward vector, the opacity of a label lies in [0, 1], in every variant.
C4_OpacityBounded == 0 <= opacity /\ opacity <= Scale

\* a label has been given an opacity strictly between 0 and its ceiling by
\* the fading branch of the sprite variant
C4_Witness ==
    /\ pcOpacity = "set" /\ variant = "billboard" /\ visible
    /\ opacity > 0 /\ opacity < Dec(5, 10) /\ opacity # Dec(15, 100)

\* the dot product of the direction from the camera to the label with the
\* camera's forward vector
LabelDotForward == Dot(Normalize(VSub(labelPos, cameraPos)), cameraForward)

\* C12: in the sprite variant a visible label whose direction from the camera
\* has dot product about -1 (at most -0.9) with the camera's forward vector
\* gets opacity 0 at any distance, and one with dot product about 1 (at least
\* 0.9) at a distance of at most 15 gets the maximal opacity 0.5.
C12_VisibilityCutoff ==
    (pcOpacity = "set" /\ variant = "billboard" /\ visible) =>
        /\ LabelDotForward <= -Dec(9, 10) => opacity = 0
        /\ (LabelDotForward >= Dec(9, 10)
              /\ distanceTo(labelPos, cameraPos) <= 15 * Scale)
             => opacity = Dec(5, 10)

\* a label straight ahead of the camera, between 10 and 15 away, has been
\* given its opacity
C12_Witness ==
    /\ pcOpacity = "set" /\ variant = "billboard" /\ visible
    /\ LabelDotForward >= Dec(9, 10)
    /\ distanceTo(labelPos, cameraPos) > 10 * Scale
    /\ distanceTo(labelPos, cameraPos) <= 15 * Scale
    /\ opacity = Dec(5, 10)

(***************************************************************************)
(* Properties of the scene (SpecScene).                                    *)
(***************************************************************************)
RECURSIVE SumAxis(_, _, _)
SumAxis(log, k, axis) ==
    IF k = 0 THEN 0 ELSE SumAxis(log, k - 1, axis) + log[k][axis]

\* C5: after T frame callbacks the rotation on each axis is the initial
\* rotation (0) plus the sum, over those T frames, of the velocity in effect
\* at each frame: every frame applies its velocity exactly once.
C5_RotationIsSumOfVelocities ==
    \A axis \in 1..3 :
        rotation[axis] = SumAxis(velocityLog, Len(velocityLog), axis)

\* the random walk has changed the velocity and frames have run with the new
\* velocity
C5_Witness ==
    /\ variant \in {"part_003", "AILOGO"} /\ pcFrame = "render"
    /\ Len(velocityLog) >= 60
    /\ velocityLog[Len(velocityLog)] # velocityLog[1]

\* C6: the world matrix the depth scan applies to the vertices is the one of
\* the rotation of the current frame, the rotation update having preceded
\* the scan.
C6_ScanSeesCurrentRotation ==
    (variant \in {"part_003", "AILOGO"} /\ scanMatrix # <<>>) =>
        scanMatrix = RotationMatrix(rotation)

\* C2: whenever the update effect writes a new index for a node, the opacity
\* of that node's label is 0.
C2_SwapOnlyWhileHidden ==
    \A n \in written : nodeOpacity[n] = 0

(***************************************************************************)
(* Properties of the build (SpecBuild).                                    *)
(***************************************************************************)
\* C14: after closeBundle each of .nojekyll and CNAME that exists in the
\* project root is in dist; one that is absent from the root is not created
\* (it is in dist only if it was there before) and the build does not fail.
C14_SpecialFilesCopied ==
    pcBuild \in {"closed", "checked"} =>
        /\ ~buildThrew
        /\ \A f \in SpecialFiles :
              /\ f \in rootDir => f \in distDir
              /\ f \notin rootDir => (f \in distDir <=> f \in distAtBundle)

\* a build with CNAME but no .nojekyll in the root has closed, CNAME has
\* been copied to dist, and test-build.js has reported both files
C14_Witness ==
    /\ pcBuild = "checked"
    /\ "CNAME" \in rootDir /\ ".nojekyll" \notin rootDir
    /\ "CNAME" \notin distAtBundle /\ "CNAME" \in distDir
    /\ ".nojekyll" \notin distDir
    /\ logged = {<<"CNAME", "copied">>, <<".nojekyll", "missing">>}

(***************************************************************************)
(* Properties of the depth scan under continued rotation (SpecScan).       *)
(***************************************************************************)
\* C15: under continued rotation the depth scan marks some node again and
\* again: a scan that found a node below the swap depth has just run,
\* infinitely often.
C15_MarkedInfinitelyOften ==
    []<>(pcFrame = "render" /\ nodesToUpdate # <<>>)

\* the step is a frame callback, of the controls, of the SkillNodes or of
\* the scene
FrameCallbackStep ==
    pcFrame' # pcFrame /\ pcFrame' \in {"nodes", "scene", "render"}

\* the step is an effect run after a commit, outside the frame callbacks
PostRenderEffectStep ==
    pcFrame = "idle" /\ pcFrame' = "idle" /\ effectDue

\* the step changes the label assignment (with no labels its entries are
\* NaN until the effect writes them)
AssignmentChanges ==
    IF skillsLength = 0 THEN written' # {} ELSE nodeSkills' # nodeSkills

StepBound(k) ==
    LET deltas == {Abs(RandomWalk(<<0, 0, 0>>, r, r, r)[k]) : r \in RandomSamples}
    IN  CHOOSE b \in deltas : \A c \in deltas : c <= b

\* the changes of the velocity between consecutive frame callbacks lie
\* within the bounds, axis by axis, in both directions
DeltasWithin(bounds) ==
    \A k \in 1..(Len(velocityLog) - 1) : \A a \in 1..3 :
        Abs(velocityLog[k + 1][a] - velocityLog[k][a]) <= bounds[a]

\* a is about the double of b: between 1.5 and 3 times b
AboutDouble(a, b) == 3 * b <= 2 * a /\ a <= 3 * b

\* C18 as stated: each perturbation changes each component within a symmetric
\* per-axis bound, and one axis has a bound about double that of each of
\* the other two.
C18_OneDominantAxis ==
    (variant \in {"part_003", "AILOGO"} /\ Len(velocityLog) >= 2) =>
        /\ DeltasWithin([a \in 1..3 |-> StepBound(a)])
        /\ \E d \in 1..3 : \A o \in (1..3) \ {d} :
                AboutDouble(StepBound(d), StepBound(o))

\* C18 (amended): each perturbation changes x and y by at most 0.00025 and
\* z by at most 0.0001: two axes share the larger bound, 2.5 times that of
\* the third, and no axis has a larger bound than both others.
C18_TwoAxesShareBound ==
    (variant \in {"part_003", "AILOGO"} /\ Len(velocityLog) >= 2) =>
        /\ DeltasWithin(<<Dec(25, 100000), Dec(25, 100000), Dec(1, 10000)>>)
        /\ StepBound(1) = Dec(25, 100000) /\ StepBound(2) = StepBound(1)
        /\ StepBound(3) = Dec(1, 10000)
        /\ 2 * StepBound(1) = 5 * StepBound(3)

\* the first perturbation of part_003 has moved x and z by their bounds
C18_Witness ==
    /\ variant = "part_003" /\ Len(velocityLog) >= 2
    /\ velocityLog[1][1] - velocityLog[2][1] = Dec(25, 100000)
    /\ velocityLog[1][3] - velocityLog[2][3] = Dec(1, 10000)

\* C20: seen from the camera of its canvas, a label at a distance of at
\* least the fog's far distance has opacity 0, and the distances between
\* which the label fades are the fog's near and far distances.
C20_FadeMatchesFog ==
    (/\ pcOpacity = "set" /\ visible /\ variant # "zDepth"
     /\ cameraPos = CanvasCamera(variant) /\ cameraForward = <<0, 0, -Scale>>
     /\ distanceTo(labelPos, cameraPos) >= fogFar(variant)) =>
        /\ opacity = 0
        /\ DistanceThresholds(variant) = <<fogNear(variant), fogFar(variant)>>

\* the opacity the frame callback of the variant v gives a visible label
LabelOpacity(v, pos, cam, forward) ==
    CASE v = "billboard" -> BillboardOpacity(pos, cam, forward)
      [] v = "htmlDot" -> HtmlDotOpacity(pos, cam)
      [] v = "effectDot" -> EffectDotOpacity(pos, cam)

\* the label faces the camera and lies in the band of distances in which
\* the code computes the opacity from the distance
NearBand(v, pos, cam, forward) ==
    CASE v = "billboard" ->
            /\ Dot(Normalize(VSub(pos, cam)), forward) > Dec(1, 10)
            /\ distanceTo(pos, cam) <= 40 * Scale
      [] v = "htmlDot" ->
            /\ Dot(Normalize(pos), Normalize(cam)) >= -Dec(3, 10)
            /\ Length(VSub(pos, cam)) < 25 * Scale
      [] v = "effectDot" ->
            /\ Dot(Normalize(pos), Normalize(cam)) >= -Dec(3, 10)
            /\ Length(VSub(pos, cam)) < 5 * Scale

\* C21: seen from the camera of its canvas, in the near band of a
\* front-facing label the opacity does not grow with the distance, and it is not the same over the whole band: some other
\* label position of the band has a different opacity.
C21_NearBandScales ==
    (/\ pcOpacity = "set" /\ visible /\ variant # "zDepth"
     /\ cameraPos = CanvasCamera(variant) /\ cameraForward = <<0, 0, -Scale>>
     /\ NearBand(variant, labelPos, cameraPos, cameraForward)) =>
        /\ \A q \in LabelPositions :
              (/\ NearBand(variant, q, cameraPos, cameraForward)
               /\ distanceTo(q, cameraPos) > distanceTo(labelPos, cameraPos))
                 => LabelOpacity(variant, q, cameraPos, cameraForward) <= opacity
        /\ \E q \in LabelPositions :
              /\ NearBand(variant, q, cameraPos, cameraForward)
              /\ LabelOpacity(variant, q, cameraPos, cameraForward) # opacity

(***************************************************************************)
(* Properties of the random walk (SpecWalk).                               *)
(***************************************************************************)
\* the velocity a run reaches when every draw is the largest one
WalkBound == Dec(2, 1000)

\* C19: no step clamps or damps the velocity: whatever the velocity is, a
\* perturbation adds to each component the delta of its draws, which does not
\* depend on the velocity (so a run of largest draws passes every bound).
C19_NoClampOrDamping ==
    [][rotationVelocity' # rotationVelocity =>
          \E d \in WalkDraws : \A a \in 1..3 :
              rotationVelocity'[a] - rotationVelocity[a] =
                  RandomWalk(<<0, 0, 0>>, d[1], d[2], d[3])[a]]_vars

\* a component of the velocity has passed 0.002, twice the largest initial
\* component
C19_Witness ==
    /\ frameCount > 60 * (MaxWalkSteps - 1)
    /\ \E a \in 1..3 : Abs(rotationVelocity[a]) > WalkBound

(***************************************************************************)
(* Properties of the skill update effect (SpecUpdate).                     *)
(***************************************************************************)
\* C16: a reassignment (with M >= 1 labels) changes only the marked nodes:
\* every node that is not marked keeps its index, every marked node gets an
\* index in 0 .. M-1, and no entry is added or lost.
C16_OnlyMarkedNodesChange ==
    [][(skillsLength >= 1 /\ nodesToUpdate # <<>>) =>
          /\ DOMAIN nodeSkills' = DOMAIN nodeSkills
          /\ \A n \in DOMAIN nodeSkills :
                IF n \in Range(nodesToUpdate)
                THEN nodeSkills'[n] \in 0..(skillsLength - 1)
                ELSE nodeSkills'[n] = nodeSkills[n]]_vars

\* the effect of part_003 has written some of the nodes, not all, and has
\* reset the list
C16_Witness ==
    /\ variant = "part_003" /\ skillsLength >= 2
    /\ written # {} /\ written # DOMAIN nodeSkills
    /\ nodesToUpdate = <<>> /\ effectDue

(***************************************************************************)
(* Properties of the skill update effect on out-of-range requests          *)
(* (SpecRequest).                                                          *)
(***************************************************************************)
\* C24: when the update effect handles a request that holds a node index
\* outside 0 .. N-1 (with M >= 1 labels), the assignment keeps its length,
\* gets no hole, and every such index is passed to console.warn.
C24_OutOfRangeRejected ==
    [][(skillsLength >= 1 /\ UpdateGuard /\ OutOfRange # {}) =>
          /\ length(nodeSkills') = length(nodeSkills)
          /\ Holes(nodeSkills') = {}
          /\ OutOfRange \subseteq ConsoleWarnings]_vars

(***************************************************************************)
(* Properties of the frame counter (SpecFrames).                           *)
(***************************************************************************)
\* C17: the frame counter the k-th frame callback reads is k - 1 (modulo 10
\* where the counter wraps), however callbacks and renders interleave.
C17_CounterIsFrameIndex ==
    \A k \in 1..Len(countLog) :
        countLog[k] = IF variant = "BuckyBall" THEN (k - 1) % 10 ELSE k - 1

(***************************************************************************)
(* The shape of the label assignment under frames, scans and reassignments *)
(* (SpecScene).                                                            *)
(***************************************************************************)
\* C25: in every reachable state the label assignment is empty or has
\* exactly one entry per node, each an integer of 0 .. M-1.
C25_AssignmentShape ==
    \/ nodeSkills = EmptyArray
    \/ /\ DOMAIN nodeSkills = 0..(totalNodes - 1)
       /\ \A n \in DOMAIN nodeSkills : nodeSkills[n] \in 0..(skillsLength - 1)

(***************************************************************************)
(* Properties of the frame callback of the icosahedron scene (SpecCamera). *)
(***************************************************************************)
\* C26: a frame callback of the scene (rotation update and scan) leaves the
\* vertex set and the camera position as they were.
C26_TickKeepsVerticesAndCamera ==
    [][(pcFrame = "scene" /\ pcFrame' = "render") =>
          /\ verticesVectors' = verticesVectors
          /\ cameraPos' = cameraPos]_vars

C23_VisibleSubset ==
    (mounted /\ pcRefresh = "idle" /\ ~effectDue) =>
        /\ Len(visibleNodes) = Min(10, skillsLength)
        /\ \A j, k \in 1..Len(visibleNodes) :
              j # k => visibleNodes[j] # visibleNodes[k]
        /\ \A k \in 1..Len(visibleNodes) :
              visibleNodes[k] \in 0..(totalNodes - 1)
        /\ \A i \in 0..(totalNodes - 1) :
              ~visibleAt(i) =>
                 /\ periodicText(i) = <<"empty">>
                 /\ ~opacityDue => nodeOpacity[i] = 0

\* ten of the twelve nodes are visible after a change of the skills, and
\* one of them has been given an opacity
C23_Witness ==
    /\ mounted /\ pcRefresh = "idle" /\ ~effectDue /\ ~opacityDue
    /\ skillsLength = 11 /\ Len(visibleNodes) = 10 /\ timerCount >= 2
    /\ \E i \in 0..(totalNodes - 1) : visibleAt(i) /\ nodeOpacity[i] > 0
    /\ \E i \in 0..(totalNodes - 1) : ~visibleAt(i)


\* C27: at most one refresh timer is active at any time, none is active once
\* the scene has unmounted, and no step after the unmount changes the label
\* assignment, the visible subset or the orientation.
C27_QuietAfterUnmount ==
    /\ [](Cardinality(DOMAIN timers) <= 1 /\ (~mounted => DOMAIN timers = {}))
    /\ [][~mounted => UNCHANGED <<nodeSkills, visibleNodes, rotation>>]_vars

\* the scene has unmounted after its effect ran for a second skills array
\* and after frames, with a subset on display
C27_Witness ==
    /\ ~mounted /\ timerCount >= 2
    /\ visibleNodes # <<>> /\ rotation # <<0, 0, 0>>

\* C29: every run of the selection loop of updateVisibleNodes comes to its
\* end, under fair draws.
C29_SelectionTerminates ==
    (pcRefresh = "loop") ~> (pcRefresh = "idle")

\* the loop has drawn an index it already had and holds all ten nodes it
\* was asked for
C29_Witness ==
    /\ pcRefresh = "loop" /\ rejected >= 1
    /\ numVisibleNodes = 10 /\ Len(newVisibleNodes) = numVisibleNodes

\* the nodes on which the label k is rendered
NodesShowing(k) ==
    {i \in 0..(totalNodes - 1) : periodicText(i) = <<"skill", k>>}

\* C30: while the scene is mounted, a node that renders a label renders
\* the label whose index is the node's position in the visible list, and
\* that index is below min(10, M); once the effect has run for the current
\* skills, each label below min(10, M) is rendered on exactly one node.
C30_LabelIsListPosition ==
    mounted =>
        /\ \A i \in 0..(totalNodes - 1) :
              \A shown \in {periodicText(i)} \ {<<"empty">>} :
                  /\ shown[2] \in 0..(Min(10, skillsLength) - 1)
                  /\ shown[2] < Len(visibleNodes)
                  /\ visibleNodes[shown[2] + 1] = i
        /\ (pcRefresh = "idle" /\ ~effectDue) =>
              \A k \in 0..(Min(10, skillsLength) - 1) :
                  Cardinality(NodesShowing(k)) = 1

\* eleven labels after a refresh: ten of them are on display, and
\* the node at the head of the list is not the first node
C30_Witness ==
    /\ mounted /\ pcRefresh = "idle" /\ ~effectDue
    /\ skillsLength = 11 /\ Len(visibleNodes) = 10
    /\ visibleNodes[1] # 0 /\ NodesShowing(9) # {} /\ NodesShowing(10) = {}

=============================================================================
